---- MODULE Spec2Model ----
(***************************************************************************)
(* Verification model of crouch74/storytel-dl.                             *)
(*                                                                         *)
(* The repository holds three command line programs that share no state:   *)
(*   - the Storytel downloader            (src/src/main.py)                *)
(*   - the batch audiobook generator      (src/generate_audiobook.py)      *)
(*   - the standalone chapter extractor   (src/audio_chapter_extractor.py) *)
(* Each program is modelled by its own specification over its own          *)
(* variables; the variables of the other programs stay at their initial    *)
(* value.  Times are seconds, modelled as integers.  External tools        *)
(* (ffmpeg, ffprobe, yt-dlp, HTTP) are nondeterministic choices over the   *)
(* outcomes the code distinguishes.                                        *)
(***************************************************************************)
EXTENDS Integers, Sequences, FiniteSets, TLC

(***************************************************************************)
(* Bounds                                                                  *)
(***************************************************************************)
MaxRuns    == 2   \* invocations of the downloader against one library root
NumBooks   == 2   \* distinct book ids in the input file
MaxUrls    == 2   \* lines of the input file
MaxFormats == 2   \* length of details["formats"]
MaxT       == 4   \* largest time (seconds) a tool reports
MaxSrc     == 2   \* chapters a chapter source yields at most
MaxCmds    == 2   \* editing commands entered before 'v' or 'r'
MaxMinLen  == 2   \* largest --min-chapter-len
MaxLines   == 3   \* lines of the FFMETADATA text of a file
NumEntries == 2   \* videos of the playlist
MaxSel     == 2   \* indices typed at the playlist selection prompt
NumItems   == 2   \* distinct inputs (paths, URLs) of a batch
MaxBatchLines == 3 \* lines of the batch file
MaxPages   == 2   \* pages the service holds for an author or series
MaxChunks  == 3   \* chunks of a streamed body
MaxCalls   == 2   \* calls of download_audiobook for one target path
MaxParts   == 3   \* parts handed to concatenate_audio_files
MaxValLen  == 2   \* chapters handed to validate_chapters
MaxValCmds == 2   \* commands typed before 'v' or 'r'
MaxFltLen  == 3   \* chapters handed to filter_short_chapters
MaxFltT    == 2   \* largest start or end of such a chapter
MaxAcq     == 3   \* acquisitions sharing one output directory
MaxRwLines == 4   \* lines of a metadata text given to the rewrite alone
MaxAuthors == 2   \* entries of the authors list of a book

(***************************************************************************)
(* Generic helpers                                                         *)
(***************************************************************************)
Range(s) == {s[i] : i \in 1..Len(s)}

SeqsUpTo(S, n) == UNION {[1..k -> S] : k \in 0..n}

RECURSIVE FilterSeq(_, _)
\* [x for x in s if x in S]
FilterSeq(s, S) ==
    IF s = <<>> THEN <<>>
    ELSE IF Head(s) \in S THEN <<Head(s)>> \o FilterSeq(Tail(s), S)
         ELSE FilterSeq(Tail(s), S)

(***************************************************************************)
(* Storytel downloader: src/src/main.py                                    *)
(***************************************************************************)
VARIABLES
    run,               \* number of the current invocation of main()
    mpc,               \* position of main()
    argMode,           \* args.mode
    interactive,       \* args.interactive
    envCreds,          \* STORYTEL_USERNAME/PASSWORD present in environment or .env
    hadCreds,          \* history: envCreds when this invocation started
    prompted,          \* history: prompt_credentials() calls of this invocation
    envWritten,        \* history: save_credentials() calls of this invocation
    loginCalls,        \* history: storytel_api.login calls of this invocation
    apiCalls,          \* history: other storytel_api calls of this invocation
    fixCalls,          \* history: arities of the fix_chapters_in_folder calls
    urls,              \* lines of the input file (book ids)
    url,               \* the loop variable `url` of the resolve loop
    catalog,           \* details["formats"] (types), the same in every run
    final_books,       \* de-duplicated book ids
    bookIdx,           \* position of the book loop (1-based)
    download_actions,  \* formats of the current book that match the mode
    fmtIdx,            \* position of the format loop (1-based)
    formats_status,    \* the list of status entries of the current book
    raisedLog,         \* history: per attempted format, did its body raise
    fs,                \* audio/ebook files under the library root: <<book id, name>>
    dlLog,             \* history: download calls made for the current book
    skipLog,           \* history: formats of the current book skipped as present
    metaLog,           \* history: generate_metadata_json calls for the current book
    loopLog,           \* history: the book whose format loop was entered last
    summary_processed,
    summary_failed

mainVars == <<run, mpc, argMode, interactive, envCreds, hadCreds, prompted,
              envWritten, loginCalls, apiCalls, fixCalls, urls, url, catalog,
              final_books, bookIdx, download_actions, fmtIdx, formats_status,
              raisedLog, fs, dlLog, skipLog, metaLog, loopLog,
              summary_processed, summary_failed>>

(* variables of the chapter pipeline: src/generate_audiobook.py process_item
   and src/audio_chapter_extractor.py main *)
VARIABLES
    gpc,            \* position of the pipeline
    orch,           \* which orchestrator runs: "process_item" or "standalone"
    auto,           \* args.auto (the standalone CLI has no such flag)
    kind,           \* the input: "local", "video" or "playlist"
    inputReached,   \* history: an input() call was reached
    chapters,       \* the chapter list
    tried,          \* history: the chapter sources consulted, in order
    duration,       \* what get_audio_duration returns for the input file
    ncmds,          \* editing commands entered so far
    lastCmd,        \* history: the last line typed at the validate_chapters prompt
    m4bCalled,      \* history: create_m4b was invoked
    m4bChapters     \* history: the chapter list create_m4b received

genVars == <<gpc, orch, auto, kind, inputReached, chapters, tried, duration,
             ncmds, lastCmd, m4bCalled, m4bChapters>>

(* variables of the local marker repair: src/src/audio_utils.py
   fix_markers_locally *)
VARIABLES
    xpc,        \* position of fix_markers_locally
    atInput,    \* what is at input_path: "none", "original" or "fixed"
    atTmp,      \* what is at output_path (.fixed_tmp.m4b): "none", "partial", "fixed"
    embedded,   \* the FFMETADATA lines embedded in the file at input_path
    metaText,   \* the lines of the .meta_extract file, NoFile when absent
    xret,       \* the value returned, "unset" before
    existed     \* input_path held a file when the call started

fixVars == <<xpc, atInput, atTmp, embedded, metaText, xret, existed>>

(* variables of the YouTube acquirer: src/audio_extractor/youtube.py
   download_youtube_audio, run by two processes on one output directory *)
VARIABLES
    is_playlist,       \* the URL both invocations were given is a playlist
    ypc,               \* per process: position in download_youtube_audio
    entries,           \* per process: original indices of the retained entries
    downloaded_files,  \* per process: index segments of the resolved files
    pairs,             \* per process: <<file index, entry index>> per chapter block
    yfs,               \* the paths that exist in output_dir
    listContent,       \* the process whose files the concat list names, 0 if none
    touches,           \* <<path, process>>: the process created, read or deleted the path
    yret               \* per process: the path returned

ytVars == <<is_playlist, ypc, entries, downloaded_files, pairs, yfs,
            listContent, touches, yret>>

(* variables of the batch generator: src/generate_audiobook.py main *)
VARIABLES
    bpc,          \* position of main
    debug,        \* args.debug
    input_arg,    \* the positional input, 0 when absent
    batch,        \* args.batch: "none", "missing" (no such file) or "file"
    batch_lines,  \* the stripped lines of the batch file
    inputs,       \* the queue
    itemIdx,      \* position of the loop over the queue (1-based)
    processed,    \* history: the arguments of the process_item calls, in order
    outcomes      \* history: how each process_item call ended

batchVars == <<bpc, debug, input_arg, batch, batch_lines, inputs, itemIdx,
               processed, outcomes>>

\* the batch generator is not running
BatchIdle ==
    /\ bpc = "idle"
    /\ debug = FALSE
    /\ input_arg = 0
    /\ batch = "none"
    /\ batch_lines = <<>>
    /\ inputs = <<>>
    /\ itemIdx = 0
    /\ processed = <<>>
    /\ outcomes = <<>>

(* variables of the URL resolution: src/src/main.py main, lines 125-264 *)
VARIABLES
    rpc,             \* position of the resolution
    rmode,           \* args.mode
    rinteractive,    \* args.interactive
    rurls,           \* the entries read_urls returns
    urlIdx,          \* position of the loop over the entries (1-based)
    cursor,          \* the paging cursor, 0 for the empty string
    service,         \* the pages the service holds for an author or series
    listCalls,       \* history: the cursors of the listing calls made
    resolved_books,  \* ids appended so far
    book_ids,        \* ids of final_books after de-duplication and selection
    idIdx,           \* position of the book loop (1-based)
    visited          \* history: the ids the book loop was entered with

resVars == <<rpc, rmode, rinteractive, rurls, urlIdx, cursor, service,
             listCalls, resolved_books, book_ids, idIdx, visited>>

\* the URL resolution is not running
ResIdle ==
    /\ rpc = "idle"
    /\ rmode = "both"
    /\ rinteractive = FALSE
    /\ rurls = <<>>
    /\ urlIdx = 0
    /\ cursor = 0
    /\ service = <<>>
    /\ listCalls = <<>>
    /\ resolved_books = <<>>
    /\ book_ids = <<>>
    /\ idIdx = 0
    /\ visited = <<>>

(* variables of the audiobook download: src/src/storytel_api.py
   download_audiobook and _download_stream *)
VARIABLES
    dpc,           \* position of download_audiobook
    targetFile,    \* what is at target_path: "none", "old" or "complete"
    partFile,      \* what is at target_path + ".part": "none", "partial"
                   \* or "complete"
    targetBefore,  \* history: targetFile when the call started
    total,         \* chunks of the body the redirected URL serves
    nwritten,      \* chunks written to the .part file
    dfailed,       \* history: where the call failed: "no", "request" (in
                   \* download_audiobook) or "stream" (in _download_stream)
    dres,          \* how the call ended: "unset", "ok", "raised" or
                   \* "interrupted"
    partBefore,    \* history: partFile when the call started
    ncalls         \* number of the call

dlVars == <<dpc, targetFile, partFile, targetBefore, total, nwritten, dfailed,
            dres, partBefore, ncalls>>

\* no download is running
DlIdle ==
    /\ dpc = "idle"
    /\ targetFile = "none"
    /\ partFile = "none"
    /\ targetBefore = "none"
    /\ total = 0
    /\ nwritten = 0
    /\ dfailed = "no"
    /\ dres = "unset"
    /\ partBefore = "none"
    /\ ncalls = 0

(* variables of the concatenation: src/audio_extractor/audio.py
   concatenate_audio_files *)
VARIABLES
    cpc,           \* position of concatenate_audio_files
    file_list,     \* the input parts, a sequence of paths
    cfs,           \* the paths that exist
    undeletable,   \* the paths whose os.remove fails
    copy_rc,       \* return code of the stream-copy invocation, -1: not run
    reenc_rc,      \* return code of the re-encode invocation, -1: not run
    pending,       \* what the try block is about to return or raise
    cret,          \* how the call ended: "unset", "true", "false", "raised"
    tool_calls     \* history: invocations of the media tool

catVars == <<cpc, file_list, cfs, undeletable, copy_rc, reenc_rc, pending,
             cret, tool_calls>>

\* no concatenation is running
CatIdle ==
    /\ cpc = "idle"
    /\ file_list = <<>>
    /\ cfs = {}
    /\ undeletable = {}
    /\ copy_rc = 0 - 1
    /\ reenc_rc = 0 - 1
    /\ pending = "unset"
    /\ cret = "unset"
    /\ tool_calls = 0

(* variables of the chapter sourcing: src/generate_audiobook.py process_item
   71-155 and src/audio_chapter_extractor.py main 740-798, with the chapter
   list reduced to the source that filled it *)
VARIABLES
    spc,            \* position in the sourcing sequence
    sorch,          \* which orchestrator runs
    sauto,          \* --auto (generate_audiobook.py only)
    surl,           \* the input is a URL
    stranscription, \* --transcription
    filled,         \* the source whose chapters the list holds, or "none"
    invoked,        \* history: the sources consulted, in order
    yields          \* history: what each consulted source contributed:
                    \* "nothing", "declined" (found, the user said no) or
                    \* "chapters"

srcVars == <<spc, sorch, sauto, surl, stranscription, filled, invoked, yields>>

\* no sourcing is running
SrcIdle ==
    /\ spc = "idle"
    /\ sorch = "none"
    /\ sauto = FALSE
    /\ surl = FALSE
    /\ stranscription = FALSE
    /\ filled = "none"
    /\ invoked = <<>>
    /\ yields = <<>>

(* variables of the review loop: src/audio_extractor/chapters.py
   validate_chapters *)
VARIABLES
    vpc,          \* "loop" or "returned"
    vchapters,    \* the list the loop edits in place
    vbefore,      \* history: the list before the last command
    vcmd,         \* history: the last command typed
    vret,         \* the list returned
    viter         \* iterations completed

valVars == <<vpc, vchapters, vbefore, vcmd, vret, viter>>

\* validate_chapters is not running
ValIdle ==
    /\ vpc = "idle"
    /\ vchapters = <<>>
    /\ vbefore = <<>>
    /\ vcmd = [op |-> "", k |-> 0, title |-> ""]
    /\ vret = <<>>
    /\ viter = 0

(* variables of the short-chapter filter on its own:
   src/audio_extractor/chapters.py filter_short_chapters *)
VARIABLES
    fpc,          \* "call" or "returned"
    fchapters,    \* the list passed
    fmin,         \* min_len
    fresult       \* the list returned

fltVars == <<fpc, fchapters, fmin, fresult>>

\* filter_short_chapters is not running
FltIdle ==
    /\ fpc = "idle"
    /\ fchapters = <<>>
    /\ fmin = 0
    /\ fresult = <<>>

(* variables of the cover choice of download_youtube_audio over a sequence
   of acquisitions in one output directory: src/audio_extractor/youtube.py
   185-238 and 298-306, src/generate_audiobook.py 49-69 *)
VARIABLES
    kpc,          \* "next", "acquire" or "returned"
    kitem,        \* the item (URL) requested by the current acquisition
    ksession,     \* number of the current session
    kjpgs,        \* the *.jpg files of the directory: <<name, session, item>>
    kfinals,      \* the items whose final audio file is in the directory
    kcover        \* the cover path returned, <<>> if none

covVars == <<kpc, kitem, ksession, kjpgs, kfinals, kcover>>

\* no acquisition has run
CovIdle ==
    /\ kpc = "idle"
    /\ kitem = 0
    /\ ksession = 0
    /\ kjpgs = {}
    /\ kfinals = {}
    /\ kcover = <<>>

(* variables of the metadata rewrite of fix_markers_locally taken alone:
   src/src/audio_utils.py 116-150 *)
VARIABLES
    rwpc,         \* "read", "fixed" or "again"
    rwlines,      \* lines: what readlines() returned
    rwfixed,      \* fixed_lines: what writelines() wrote
    rwagain       \* fixed_lines of a second rewrite, of rwfixed

rwVars == <<rwpc, rwlines, rwfixed, rwagain>>

\* no rewrite has run
RwIdle ==
    /\ rwpc = "idle"
    /\ rwlines = <<>>
    /\ rwfixed = <<>>
    /\ rwagain = <<>>

(* variables of the author extraction of extract_metadata_dict taken
   alone: src/src/metadata.py 30-37 *)
VARIABLES
    mdpc,           \* "call" or "returned"
    book_details,   \* the "authors" and "author" entries of the details
    author_str      \* the author text computed, a sequence of text pieces

authVars == <<mdpc, book_details, author_str>>

\* extract_metadata_dict has not been called
AuthIdle ==
    /\ mdpc = "idle"
    /\ book_details = <<>>
    /\ author_str = <<>>

vars == <<mainVars, genVars, fixVars, ytVars, batchVars, resVars, dlVars, catVars, srcVars, valVars, fltVars, covVars, rwVars, authVars>>

\* the variables the downloader leaves alone
nonMain == <<genVars, fixVars, ytVars, batchVars, resVars, dlVars, catVars, srcVars, valVars, fltVars, covVars, rwVars, authVars>>

\* the variables the chapter pipeline leaves alone
nonGen == <<mainVars, fixVars, ytVars, batchVars, resVars, dlVars, catVars, srcVars, valVars, fltVars, covVars, rwVars, authVars>>

\* the variables the marker repair leaves alone
nonFix == <<mainVars, genVars, ytVars, batchVars, resVars, dlVars, catVars, srcVars, valVars, fltVars, covVars, rwVars, authVars>>

\* the variables the YouTube acquirer leaves alone
nonYt == <<mainVars, genVars, fixVars, batchVars, resVars, dlVars, catVars, srcVars, valVars, fltVars, covVars, rwVars, authVars>>

\* the variables the batch generator leaves alone
nonBatch == <<mainVars, genVars, fixVars, ytVars, resVars, dlVars, catVars, srcVars, valVars, fltVars, covVars, rwVars, authVars>>

\* the variables the URL resolution leaves alone
nonRes == <<mainVars, genVars, fixVars, ytVars, batchVars, dlVars, catVars, srcVars, valVars, fltVars, covVars, rwVars, authVars>>

\* the variables the audiobook download leaves alone
nonDl == <<mainVars, genVars, fixVars, ytVars, batchVars, resVars, catVars, srcVars, valVars, fltVars, covVars, rwVars, authVars>>

\* the variables the concatenation leaves alone
nonCat == <<mainVars, genVars, fixVars, ytVars, batchVars, resVars, dlVars, srcVars, valVars, fltVars, covVars, rwVars, authVars>>

\* the variables the chapter sourcing leaves alone
nonSrc == <<mainVars, genVars, fixVars, ytVars, batchVars, resVars, dlVars, catVars, valVars, fltVars, covVars, rwVars, authVars>>

\* the variables the review loop leaves alone
nonVal == <<mainVars, genVars, fixVars, ytVars, batchVars, resVars, dlVars, catVars, srcVars, fltVars, covVars, rwVars, authVars>>

\* the variables the short-chapter filter leaves alone
nonFlt == <<mainVars, genVars, fixVars, ytVars, batchVars, resVars, dlVars, catVars, srcVars, valVars, covVars, rwVars, authVars>>

\* the variables the cover choice leaves alone
nonCov == <<mainVars, genVars, fixVars, ytVars, batchVars, resVars, dlVars, catVars, srcVars, valVars, fltVars, rwVars, authVars>>

\* the variables the rewrite leaves alone
nonRw == <<mainVars, genVars, fixVars, ytVars, batchVars, resVars, dlVars, catVars, srcVars, valVars, fltVars, covVars, authVars>>

\* the variables the author extraction leaves alone
nonAuth == <<mainVars, genVars, fixVars, ytVars, batchVars, resVars, dlVars, catVars, srcVars, valVars, fltVars, covVars, rwVars>>

\* the two invocations; the session id of an invocation is its number
Procs == {1, 2}

\* the YouTube acquirer is not running
YtIdle ==
    /\ is_playlist = FALSE
    /\ ypc = [p \in Procs |-> "idle"]
    /\ entries = [p \in Procs |-> <<>>]
    /\ downloaded_files = [p \in Procs |-> <<>>]
    /\ pairs = [p \in Procs |-> <<>>]
    /\ yfs = {}
    /\ listContent = 0
    /\ touches = {}
    /\ yret = [p \in Procs |-> <<>>]

NoFile == <<"absent">>

\* the marker repair is not running
FixIdle ==
    /\ xpc = "idle"
    /\ atInput = "none"
    /\ atTmp = "none"
    /\ embedded = <<>>
    /\ metaText = NoFile
    /\ xret = "unset"
    /\ existed = FALSE

\* no line was typed yet
NoCmd == [op |-> "", k |-> 0, title |-> ""]

\* the chapter pipeline is not running
GenIdle ==
    /\ gpc = "idle"
    /\ orch = "process_item"
    /\ auto = FALSE
    /\ kind = "local"
    /\ inputReached = FALSE
    /\ chapters = <<>>
    /\ tried = <<>>
    /\ duration = 0
    /\ ncmds = 0
    /\ lastCmd = NoCmd
    /\ m4bCalled = FALSE
    /\ m4bChapters = <<>>

Modes   == {"audio", "ebook", "both", "fix-chapters"}
Books   == 1..NumBooks
FTypes  == {"abook", "ebook"}

\* main.py 311-315
desired_modes(mode) ==
    (IF mode \in {"audio", "both"} THEN {"abook"} ELSE {})
    \cup (IF mode \in {"ebook", "both"} THEN {"ebook"} ELSE {})

\* a variant that keeps every occurrence
DedupNothing(s, seen) == s

RECURSIVE Dedup(_, _)
\* main.py 213-219: unique the ids while preserving order
Dedup(s, seen) ==
    IF s = <<>> THEN <<>>
    ELSE IF Head(s) \in seen THEN Dedup(Tail(s), seen)
         ELSE <<Head(s)>> \o Dedup(Tail(s), seen \cup {Head(s)})

Has(b, name) == <<b, name>> \in fs

\* a variant that re-downloads the audio although the .mp3 is present
NeedsAudioDownloadNoMp3Check(b) == ~Has(b, "m4b")

\* main.py 345-353: download_audiobook is called only when neither the
\* .m4b nor the .mp3 exists
NeedsAudioDownload(b) == ~Has(b, "m4b") /\ ~Has(b, "mp3")

\* main.py 371-376
NeedsEbookDownload(b) == ~Has(b, "epub")

StatusEntry(ftype, src, downloaded, filename) ==
    [type |-> ftype, source |-> src, downloaded |-> downloaded,
     filename |-> filename]

MainInit ==
    /\ run = 1
    /\ mpc = "start"
    /\ argMode \in Modes
    /\ interactive \in BOOLEAN
    /\ envCreds \in BOOLEAN
    /\ hadCreds = envCreds
    /\ prompted = 0
    /\ envWritten = 0
    /\ loginCalls = 0
    /\ apiCalls = 0
    /\ fixCalls = <<>>
    /\ urls \in SeqsUpTo(Books, MaxUrls)
    /\ url = 0
    /\ catalog \in SeqsUpTo(FTypes, MaxFormats)
    /\ final_books = <<>>
    /\ bookIdx = 0
    /\ download_actions = <<>>
    /\ fmtIdx = 0
    /\ formats_status = <<>>
    /\ raisedLog = <<>>
    /\ fs = {}
    /\ dlLog = {}
    /\ skipLog = {}
    /\ metaLog = <<>>
    /\ loopLog = {}
    /\ summary_processed = 0
    /\ summary_failed = 0

(* ----- steps of main() ------------------------------------------------ *)

\* main.py 62-106: argument parsing, the interactive mode override and the
\* credentials check.  new_mode is what the user types at the mode prompt;
\* typed tells whether the prompted username and password are both non-empty.
MainSetup ==
    /\ UNCHANGED nonMain
    /\ mpc = "start"
    /\ \E new_mode \in Modes \cup {""} :
          argMode' = IF interactive /\ new_mode \in Modes
                     THEN new_mode ELSE argMode
    /\ IF ~envCreds
       THEN /\ prompted' = prompted + 1
            /\ envWritten' = envWritten + 1
            /\ envCreds' \in BOOLEAN
       ELSE UNCHANGED <<prompted, envWritten, envCreds>>
    /\ mpc' = "mode"
    /\ UNCHANGED <<run, interactive, hadCreds, loginCalls, apiCalls, fixCalls,
                   urls, url, catalog, final_books, bookIdx, download_actions,
                   fmtIdx, formats_status, raisedLog, fs, dlLog, skipLog,
                   metaLog, loopLog, summary_processed, summary_failed>>

\* a variant of the mode handling that forgets the early return
FixChaptersReturnsFallThrough(mode) == FALSE

\* main.py 109-111: mode fix-chapters returns right after the local repair
FixChaptersReturns(mode) == mode = "fix-chapters"

\* main.py 108-111
ModeHandling ==
    /\ UNCHANGED nonMain
    /\ mpc = "mode"
    /\ IF argMode = "fix-chapters"
       THEN /\ fixCalls' = Append(fixCalls, 1)
            /\ mpc' = IF FixChaptersReturns(argMode) THEN "returned" ELSE "login"
       ELSE /\ mpc' = "login"
            /\ UNCHANGED fixCalls
    /\ UNCHANGED <<run, argMode, interactive, envCreds, hadCreds, prompted,
                   envWritten, loginCalls, apiCalls, urls, url, catalog,
                   final_books, bookIdx, download_actions, fmtIdx,
                   formats_status, raisedLog, fs, dlLog, skipLog, metaLog,
                   loopLog, summary_processed, summary_failed>>

\* main.py 113-118: a failed login exits with status 1
Login ==
    /\ UNCHANGED nonMain
    /\ mpc = "login"
    /\ loginCalls' = loginCalls + 1
    /\ \E ok \in BOOLEAN : mpc' = IF ok THEN "resolve" ELSE "exit1"
    /\ UNCHANGED <<run, argMode, interactive, envCreds, hadCreds, prompted,
                   envWritten, apiCalls, fixCalls, urls, url, catalog,
                   final_books, bookIdx, download_actions, fmtIdx,
                   formats_status, raisedLog, fs, dlLog, skipLog, metaLog,
                   loopLog, summary_processed, summary_failed>>

\* main.py 222-252: the books kept by the interactive selection; sel is the
\* set of valid 1-based indices the user typed (empty: keep all)
SelectBooks(books, sel) ==
    IF sel = {} THEN books
    ELSE FilterSeq(books, {books[i] : i \in sel})

\* main.py 120-261: the second fix-chapters test, the input file, the
\* resolution of the entries to book ids, de-duplication and selection
Resolve ==
    /\ UNCHANGED nonMain
    /\ mpc = "resolve"
    /\ IF argMode = "fix-chapters"
       THEN \* main.py 121-123: fix_chapters_in_folder(args.out, jwt)
            /\ fixCalls' = Append(fixCalls, 2)
            /\ mpc' = "crashed"
            /\ UNCHANGED <<url, final_books, bookIdx>>
       ELSE /\ UNCHANGED fixCalls
            /\ \E inputExists \in BOOLEAN :
                 IF ~inputExists
                 THEN /\ mpc' = "exit1"
                      /\ UNCHANGED <<url, final_books, bookIdx>>
                 ELSE /\ url' = IF urls = <<>> THEN url ELSE urls[Len(urls)]
                      /\ \E sel \in SUBSET (1..Len(Dedup(urls, {}))) :
                           final_books' =
                             IF interactive /\ Len(Dedup(urls, {})) > 1
                             THEN SelectBooks(Dedup(urls, {}), sel)
                             ELSE Dedup(urls, {})
                      /\ bookIdx' = 1
                      /\ mpc' = "books"
    /\ UNCHANGED <<run, argMode, interactive, envCreds, hadCreds, prompted,
                   envWritten, loginCalls, apiCalls, urls, catalog,
                   download_actions, fmtIdx, formats_status, raisedLog, fs,
                   dlLog, skipLog, metaLog, loopLog, summary_processed,
                   summary_failed>>

\* main.py 263-326: details, markers, the book folder and the formats that
\* match the mode.  det is the outcome of get_book_details (a value, None or
\* an exception); dirOk is the outcome of io_utils.ensure_directory.
\* get_audiobook_markers never raises (storytel_api.py 188-190).
BookStart ==
    /\ UNCHANGED nonMain
    /\ mpc = "books"
    /\ bookIdx <= Len(final_books)
    /\ \E det \in {"ok", "none", "raise"}, dirOk \in BOOLEAN :
         /\ apiCalls' = apiCalls + (IF det = "ok" THEN 2 ELSE 1)
         /\ IF det = "ok" /\ dirOk
            THEN /\ summary_processed' = summary_processed + 1
                 /\ download_actions' = FilterSeq(catalog, desired_modes(argMode))
                 /\ fmtIdx' = 1
                 /\ formats_status' = <<>>
                 /\ raisedLog' = <<>>
                 /\ loopLog' = {<<run, final_books[bookIdx]>>}
                 /\ mpc' = "formats"
                 /\ UNCHANGED <<summary_failed, bookIdx>>
            ELSE /\ summary_processed' =
                      summary_processed + (IF det = "ok" THEN 1 ELSE 0)
                 /\ summary_failed' = summary_failed + 1
                 /\ bookIdx' = bookIdx + 1
                 /\ download_actions' = <<>>
                 /\ fmtIdx' = 0
                 /\ formats_status' = <<>>
                 /\ raisedLog' = <<>>
                 /\ loopLog' = {}
                 /\ UNCHANGED mpc
    /\ dlLog' = {}
    /\ skipLog' = {}
    /\ metaLog' = <<>>
    /\ UNCHANGED <<run, argMode, interactive, envCreds, hadCreds, prompted,
                   envWritten, loginCalls, fixCalls, urls, url, catalog,
                   final_books, fs>>

\* the target file of a format exists in the book folder
TargetExists(b, ftype) ==
    IF ftype = "abook" THEN Has(b, "m4b") \/ Has(b, "mp3")
    ELSE Has(b, "epub")

\* a variant of the handler whose except clause skips the append
AppendStatusDropRaised(status, entry, raised) ==
    IF raised THEN status ELSE Append(status, entry)

\* main.py 380-385: the status entry is appended after the try/except,
\* whether or not the body raised
AppendStatus(status, entry, raised) == Append(status, entry)

\* main.py 339-366: the abook branch.  dl is the outcome of
\* download_audiobook (on failure the .part file is removed and the exception
\* propagates, storytel_api.py 106-110), cv the outcome of convert_to_m4b
\* (ffmpeg may leave a partial output file when it fails), rmOk the outcome
\* of os.remove on the intermediate .mp3.
\* Result: <<files, downloaded, filename, raised, download called, skipped>>
AbookBranch(b, dl, cv, rmOk) ==
    IF Has(b, "m4b")
    THEN <<fs, TRUE, "m4b", FALSE, FALSE, TRUE>>
    ELSE LET need == NeedsAudioDownload(b)
             fs1  == IF need /\ dl = "ok" THEN fs \cup {<<b, "mp3">>} ELSE fs
             fs2  == IF cv = "fail" THEN fs1 ELSE fs1 \cup {<<b, "m4b">>}
         IN IF need /\ dl # "ok"
            THEN <<fs, FALSE, "none", TRUE, TRUE, FALSE>>
            ELSE IF cv = "ok"
                 THEN IF rmOk
                      THEN <<fs2 \ {<<b, "mp3">>}, TRUE, "m4b", FALSE, need, ~need>>
                      ELSE <<fs2, FALSE, "none", TRUE, need, ~need>>
                 ELSE <<fs2, TRUE, "mp3", FALSE, need, ~need>>

\* main.py 368-378: the ebook branch.  dl is the outcome of download_ebook;
\* "fail_partial" is a failure of the direct write (storytel_api.py 240-241)
\* that leaves a file at the target path.
EbookBranch(b, dl) ==
    IF ~NeedsEbookDownload(b)
    THEN <<fs, TRUE, "epub", FALSE, FALSE, TRUE>>
    ELSE IF dl = "ok"
         THEN <<fs \cup {<<b, "epub">>}, TRUE, "epub", FALSE, TRUE, FALSE>>
         ELSE IF dl = "fail_partial"
              THEN <<fs \cup {<<b, "epub">>}, FALSE, "none", TRUE, TRUE, FALSE>>
              ELSE <<fs, FALSE, "none", TRUE, TRUE, FALSE>>

\* main.py 328-385: one iteration of the format loop
FormatStep ==
    /\ UNCHANGED nonMain
    /\ mpc = "formats"
    /\ fmtIdx <= Len(download_actions)
    /\ LET b     == final_books[bookIdx]
           ftype == download_actions[fmtIdx]
       IN \E dl \in {"ok", "fail", "fail_partial"},
             cv \in {"ok", "fail", "fail_partial"}, rmOk \in BOOLEAN :
            LET r == IF ftype = "abook" THEN AbookBranch(b, dl, cv, rmOk)
                     ELSE EbookBranch(b, dl)
            IN /\ fs' = r[1]
               /\ formats_status' =
                     AppendStatus(formats_status,
                                  StatusEntry(ftype, url, r[2], r[3]), r[4])
               /\ raisedLog' = Append(raisedLog, r[4])
               /\ dlLog' = IF r[5]
                           THEN dlLog \cup {[run |-> run, book |-> b,
                                             type |-> ftype,
                                             existed |-> TargetExists(b, ftype)]}
                           ELSE dlLog
               /\ skipLog' = IF r[6] THEN skipLog \cup {<<run, b, ftype>>}
                             ELSE skipLog
    /\ fmtIdx' = fmtIdx + 1
    /\ UNCHANGED <<run, mpc, argMode, interactive, envCreds, hadCreds,
                   prompted, envWritten, loginCalls, apiCalls, fixCalls, urls,
                   url, catalog, final_books, bookIdx, download_actions,
                   metaLog, loopLog, summary_processed, summary_failed>>

\* main.py 387-401: the cover download (skipped when there is no cover URL
\* or cover.jpg exists; its failure is swallowed, main.py 395-398)
\* and generate_metadata_json, whose own write failure is swallowed too
\* (metadata.py 110-111).  cover.jpg and metadata.json are not kept in fs.
CoverAndMetadata ==
    /\ UNCHANGED nonMain
    /\ mpc = "formats"
    /\ fmtIdx > Len(download_actions)
    /\ LET b == final_books[bookIdx]
       IN \E hasCoverUrl \in BOOLEAN, coverExists \in BOOLEAN :
            /\ metaLog' = Append(metaLog, [run |-> run, book |-> b,
                                           formats |-> formats_status])
            /\ apiCalls' = apiCalls
                 + (IF hasCoverUrl /\ ~coverExists THEN 1 ELSE 0)
    /\ bookIdx' = bookIdx + 1
    /\ mpc' = "books"
    /\ UNCHANGED <<run, argMode, interactive, envCreds, hadCreds, prompted,
                   envWritten, loginCalls, fixCalls, urls, url, catalog,
                   final_books, download_actions, fmtIdx, formats_status,
                   raisedLog, fs, dlLog, skipLog, loopLog, summary_processed,
                   summary_failed>>

\* main.py 410: the summary line after the last book
Finish ==
    /\ UNCHANGED nonMain
    /\ mpc = "books"
    /\ bookIdx > Len(final_books)
    /\ mpc' = "returned"
    /\ UNCHANGED <<run, argMode, interactive, envCreds, hadCreds, prompted,
                   envWritten, loginCalls, apiCalls, fixCalls, urls, url,
                   catalog, final_books, bookIdx, download_actions, fmtIdx,
                   formats_status, raisedLog, fs, dlLog, skipLog, metaLog,
                   loopLog, summary_processed, summary_failed>>

\* main.py 54-62: the program is started again on the same library root and
\* the same .env; the files and the saved credentials persist
NewRun ==
    /\ UNCHANGED nonMain
    /\ mpc \in {"returned", "exit1", "crashed"}
    /\ run < MaxRuns
    /\ run' = run + 1
    /\ mpc' = "start"
    /\ argMode' \in Modes
    /\ interactive' \in BOOLEAN
    /\ hadCreds' = envCreds
    /\ prompted' = 0
    /\ envWritten' = 0
    /\ loginCalls' = 0
    /\ apiCalls' = 0
    /\ fixCalls' = <<>>
    /\ url' = 0
    /\ final_books' = <<>>
    /\ bookIdx' = 0
    /\ download_actions' = <<>>
    /\ fmtIdx' = 0
    /\ formats_status' = <<>>
    /\ raisedLog' = <<>>
    /\ summary_processed' = 0
    /\ summary_failed' = 0
    /\ dlLog' = {}
    /\ skipLog' = {}
    /\ metaLog' = <<>>
    /\ loopLog' = {}
    /\ UNCHANGED <<envCreds, urls, catalog, fs>>

\* the downloader is not running
MainIdle ==
    /\ run = 0
    /\ mpc = "idle"
    /\ argMode = "both"
    /\ interactive = FALSE
    /\ envCreds = FALSE
    /\ hadCreds = FALSE
    /\ prompted = 0
    /\ envWritten = 0
    /\ loginCalls = 0
    /\ apiCalls = 0
    /\ fixCalls = <<>>
    /\ urls = <<>>
    /\ url = 0
    /\ catalog = <<>>
    /\ final_books = <<>>
    /\ bookIdx = 0
    /\ download_actions = <<>>
    /\ fmtIdx = 0
    /\ formats_status = <<>>
    /\ raisedLog = <<>>
    /\ fs = {}
    /\ dlLog = {}
    /\ skipLog = {}
    /\ metaLog = <<>>
    /\ loopLog = {}
    /\ summary_processed = 0
    /\ summary_failed = 0

MainNext ==
    \/ MainSetup
    \/ ModeHandling
    \/ Login
    \/ Resolve
    \/ BookStart
    \/ FormatStep
    \/ CoverAndMetadata
    \/ Finish
    \/ NewRun

\* the other components are at rest
InitMain == MainInit /\ GenIdle /\ FixIdle /\ YtIdle /\ BatchIdle /\ ResIdle /\ DlIdle /\ CatIdle /\ SrcIdle /\ ValIdle /\ FltIdle /\ CovIdle /\ RwIdle /\ AuthIdle

SpecMain == InitMain /\ [][MainNext]_vars

(* ----- properties of the downloader ----------------------------------- *)

C5_FixChaptersNeverLogsIn ==
    /\ argMode = "fix-chapters" => (loginCalls = 0 /\ apiCalls = 0)
    /\ 2 \notin Range(fixCalls)
    /\ (argMode = "fix-chapters" /\ mpc \notin {"start", "mode"}) =>
          (mpc = "returned" /\ fixCalls = <<1>>)

\* a fix-chapters run selected at the interactive prompt that has returned
C5_Witness ==
    /\ argMode = "fix-chapters"
    /\ interactive
    /\ mpc = "returned"
    /\ fixCalls = <<1>>
    /\ loginCalls = 0

\* C6: a fix-chapters run started without credentials in the environment and
\* in .env neither prompts for credentials nor writes .env.
C6_FixChaptersNeedsNoCredentials ==
    (argMode = "fix-chapters" /\ ~hadCreds /\ mpc # "start") =>
        (prompted = 0 /\ envWritten = 0)

\* C10: the format loop appends exactly one status entry per attempted
\* format (the formats of the book that match the mode, in the book's
\* order); an exception in the handling of a format leaves its entry with
\* downloaded = false, does not reach the per-book handler and does not stop
\* the loop.
C10_OneStatusPerFormat ==
    loopLog # {} =>
       /\ download_actions = FilterSeq(catalog, desired_modes(argMode))
       /\ Len(raisedLog) = (IF mpc = "formats" THEN fmtIdx - 1
                            ELSE Len(download_actions))
       /\ Len(formats_status) = Len(raisedLog)
       /\ \A i \in 1..Len(formats_status) :
            /\ i <= Len(download_actions)
            /\ formats_status[i].type = download_actions[i]
            /\ raisedLog[i] => ~formats_status[i].downloaded
       /\ mpc # "formats" => (Len(metaLog) = 1 /\ metaLog[1].formats = formats_status)

\* the first format raised, the second one was still attempted and succeeded
C10_Witness ==
    /\ mpc = "books"
    /\ loopLog # {}
    /\ Len(formats_status) = 2
    /\ raisedLog = <<TRUE, FALSE>>
    /\ ~formats_status[1].downloaded
    /\ formats_status[2].downloaded

\* C11: for every book whose details were fetched, generate_metadata_json is
\* invoked exactly once with the collected format statuses.  A step that
\* ends the processing of a book (the book loop moves on) either ends the
\* format loop or is the step that fetched the details (summary_processed
\* counts the fetched details, main.py 279); after it the metadata of the
\* book has been written once.
C11_MetadataForEveryFetchedBook ==
    [][(/\ bookIdx' = bookIdx + 1
        /\ (mpc = "formats" \/ summary_processed' = summary_processed + 1))
          => (/\ Len(metaLog') = 1
              /\ metaLog'[1].formats = formats_status')]_vars

(***************************************************************************)
(* Chapter lists: src/audio_extractor/chapters.py, audio.py                *)
(* (src/audio_chapter_extractor.py holds identical copies)                 *)
(***************************************************************************)

\* A title is a record: [text |-> "Chapter", n |-> k] is the string
\* "Chapter k" (the titles the pattern ^Chapter \d+$ matches); any other
\* title has n = 0.
Title(text) == [text |-> text, n |-> 0]
Generic(k)  == [text |-> "Chapter", n |-> k]
IsGeneric(t) == t.text = "Chapter"

Chap(s, e, t) == [start |-> s, end |-> e, title |-> t]

TempEnd        == 10  \* chapters.py 276: temporary end of an added chapter
DuplicateWindow == 5  \* chapters.py 104: transcription matches closer than this are dropped
MinSilenceGap  == 1   \* audio.py 60: minimum length of a silence-bounded chapter

Times == 0..MaxT

\* the increasing sequence of the elements of a finite set of integers
RECURSIVE SortedSeq(_)
SortedSeq(S) ==
    IF S = {} THEN <<>>
    ELSE LET m == CHOOSE x \in S : \A y \in S : x <= y
         IN <<m>> \o SortedSeq(S \ {m})

RECURSIVE InsertByStart(_, _)
\* insertion behind every element whose start is not larger (stable)
InsertByStart(sorted, c) ==
    IF sorted = <<>> THEN <<c>>
    ELSE IF Head(sorted).start <= c.start
         THEN <<Head(sorted)>> \o InsertByStart(Tail(sorted), c)
         ELSE <<c>> \o sorted

SortByStartKeepsOrder(chs) == chs

RECURSIVE SortByStart(_)
\* sorted(chapters, key=start) / chapters.sort(key=start): a stable sort
SortByStart(chs) ==
    IF chs = <<>> THEN <<>>
    ELSE InsertByStart(SortByStart(SubSeq(chs, 1, Len(chs) - 1)), chs[Len(chs)])

\* chapters.py 124-125 and 281-282: each chapter ends where the next begins
FixEnds(chs) ==
    [i \in 1..Len(chs) |->
        IF i < Len(chs) THEN [chs[i] EXCEPT !.end = chs[i + 1].start]
        ELSE chs[i]]

RECURSIVE TransMarks(_, _)
\* chapters.py 90-114: one mark per matching segment, unless it starts less
\* than DuplicateWindow after the previous mark
TransMarks(starts, acc) ==
    IF starts = <<>> THEN acc
    ELSE LET st == Head(starts)
             d  == IF acc = <<>> THEN 0
                   ELSE IF st >= acc[Len(acc)].start
                        THEN st - acc[Len(acc)].start
                        ELSE acc[Len(acc)].start - st
         IN IF acc # <<>> /\ d < DuplicateWindow
            THEN TransMarks(Tail(starts), acc)
            ELSE TransMarks(Tail(starts), Append(acc, Chap(st, st, Title("A"))))

\* chapters.py 34-132: starts are the start times of the segments whose text
\* matches a chapter pattern (none when Whisper is missing or fails)
detect_chapters_from_transcription(starts, total_duration) ==
    LET marks == FixEnds(SortByStart(TransMarks(starts, <<>>)))
    IN IF marks = <<>> THEN <<>>
       ELSE [marks EXCEPT ![Len(marks)].end = total_duration]

RECURSIVE SilenceChapters(_, _, _)
\* audio.py 55-66: result <<chapters, current_start>>
SilenceChapters(ends, current_start, acc) ==
    IF ends = <<>> THEN <<acc, current_start>>
    ELSE IF Head(ends) > current_start + MinSilenceGap
         THEN SilenceChapters(Tail(ends), Head(ends),
                  Append(acc, Chap(current_start, Head(ends),
                                   Generic(Len(acc) + 1))))
         ELSE SilenceChapters(Tail(ends), current_start, acc)

\* audio.py 24-76: ends are the silence_end values ffmpeg reports
detect_silence(ends, total_duration) ==
    IF ends = <<>> THEN <<>>
    ELSE LET r == SilenceChapters(ends, 0, <<>>)
         IN IF r[2] < total_duration
            THEN Append(r[1], Chap(r[2], total_duration, Generic(Len(r[1]) + 1)))
            ELSE r[1]

RECURSIVE MergeShort(_, _, _)
\* chapters.py 178-191: a chapter shorter than min_len is merged into the
\* previous kept chapter
MergeShort(filtered, rest, ml) ==
    IF rest = <<>> THEN filtered
    ELSE LET c == Head(rest)
         IN IF filtered = <<>>
            THEN MergeShort(<<c>>, Tail(rest), ml)
            ELSE IF c.end - c.start < ml
                 THEN MergeShort([filtered EXCEPT ![Len(filtered)].end = c.end],
                                 Tail(rest), ml)
                 ELSE MergeShort(Append(filtered, c), Tail(rest), ml)

MergeFirstNever(filtered, ml) == filtered

\* chapters.py 193-199: a short first chapter is merged into the second
MergeFirst(filtered, ml) ==
    IF Len(filtered) > 1 /\ filtered[1].end - filtered[1].start < ml
    THEN Tail([filtered EXCEPT ![2].start = filtered[1].start])
    ELSE filtered

RenumberNever(filtered) == filtered

\* chapters.py 201-204: generic titles are renumbered by position
Renumber(filtered) ==
    [i \in 1..Len(filtered) |->
        IF IsGeneric(filtered[i].title)
        THEN [filtered[i] EXCEPT !.title = Generic(i)]
        ELSE filtered[i]]

\* chapters.py 171-206
filter_short_chapters(chs, ml) ==
    IF chs = <<>> \/ ml <= 0 THEN chs
    ELSE Renumber(MergeFirst(MergeShort(<<>>, chs, ml), ml))

\* a variant that never clamps
ClampLastNever(chs, d) == chs

\* generate_audiobook.py 159-160 and 176-177 (audio_chapter_extractor.py
\* 802-803, 816-817): the last chapter ends at the probed duration, when
\* the probe returned a positive value
ClampLast(chs, d) ==
    IF chs # <<>> /\ d > 0 THEN [chs EXCEPT ![Len(chs)].end = d] ELSE chs

\* chapters.py 233-244: 'e k', then the new title typed at the prompt
\* (empty: keep the title)
CmdEdit(chs, k, new_title) ==
    IF 1 <= k /\ k <= Len(chs) /\ new_title # ""
    THEN [chs EXCEPT ![k].title = Title(new_title)]
    ELSE chs

CmdDeleteWraps(chs, k) ==
    IF 0 <= k /\ k <= Len(chs) /\ chs # <<>>
    THEN LET at == IF k = 0 THEN Len(chs) ELSE k
         IN SubSeq(chs, 1, at - 1) \o SubSeq(chs, at + 1, Len(chs))
    ELSE chs

\* chapters.py 245-255: 'd k'
CmdDelete(chs, k) ==
    IF 1 <= k /\ k <= Len(chs)
    THEN SubSeq(chs, 1, k - 1) \o SubSeq(chs, k + 1, Len(chs))
    ELSE chs

\* chapters.py 256-284: 'a <time> <title>'
CmdAdd(chs, t, title) ==
    FixEnds(SortByStart(Append(chs, Chap(t, t + TempEnd, Title(title)))))

\* the chapter lists an external source (YouTube metadata, ffprobe) can
\* report: up to MaxSrc chapters in start order that do not overlap
BaseChaps == {Chap(a, b, Title("A")) : a \in Times, b \in Times} 

SrcLists ==
    {l \in SeqsUpTo({c \in BaseChaps : c.start < c.end}, MaxSrc) :
        /\ l # <<>>
        /\ \A i \in 1..(Len(l) - 1) : l[i].end <= l[i + 1].start}

\* chapters.py 26: chapters without a title tag are called "Chapter i+1"
Untitled(l) == [i \in 1..Len(l) |-> [l[i] EXCEPT !.title = Generic(i)]]

(***************************************************************************)
(* The chapter pipeline: src/generate_audiobook.py process_item and        *)
(* src/audio_chapter_extractor.py main                                     *)
(***************************************************************************)

GenInit ==
    /\ gpc = "start"
    /\ orch \in {"process_item", "standalone"}
    /\ auto \in (IF orch = "standalone" THEN {FALSE} ELSE BOOLEAN)
    /\ kind \in {"local", "video", "playlist"}
    /\ inputReached = FALSE
    /\ chapters = <<>>
    /\ tried = <<>>
    /\ duration \in Times
    /\ ncmds = 0
    /\ lastCmd = NoCmd
    /\ m4bCalled = FALSE
    /\ m4bChapters = <<>>

\* youtube.py 73-98 and 108-128: download_youtube_audio reaches input() at
\* the format prompt when list_formats is set and at the selection prompt
\* whenever the URL is a playlist
YtPrompts(list_formats, playlist) == list_formats \/ playlist

\* generate_audiobook.py 58 (args.list_formats is always True, line 215);
\* audio_chapter_extractor.py 719, 736
ListFormatsArg == IF orch = "standalone" THEN TRUE ELSE ~auto

\* generate_audiobook.py 22-29: ask_user returns the default without a
\* prompt under --auto; the standalone CLI always prompts
\* (audio_chapter_extractor.py 742, 774)
ask_user(default, answer) == IF auto THEN default ELSE answer

\* generate_audiobook.py 171-189, audio_chapter_extractor.py 811-821: an
\* empty list aborts, otherwise the last end is clamped again and create_m4b
\* is invoked.  Result: <<position, create_m4b called, chapters passed>>
Finalize(final_chapters) ==
    IF final_chapters = <<>>
    THEN <<"aborted", FALSE, <<>> >>
    ELSE <<"done", TRUE, ClampLast(final_chapters, duration)>>

\* generate_audiobook.py 37-123, audio_chapter_extractor.py 728-767: the
\* acquisition of the input.  metaOk/dlOk: outcome of the metadata fetch and
\* of the rest of download_youtube_audio; yt: the chapters it returns;
\* useYt, rename: the answers to the two chapter questions; fileExists: the
\* os.path.exists test of the input; coverKnown: a cover was given or found.
Acquire ==
    /\ UNCHANGED nonGen
    /\ gpc = "start"
    /\ \E metaOk \in BOOLEAN, dlOk \in BOOLEAN, yt \in SrcLists \cup {<<>>},
          useYt \in BOOLEAN, rename \in BOOLEAN, fileExists \in BOOLEAN,
          coverKnown \in BOOLEAN :
         LET isUrl   == kind # "local"
             result  == isUrl /\ metaOk /\ dlOk
             ytAsk   == isUrl /\ metaOk
                        /\ YtPrompts(ListFormatsArg, kind = "playlist")
             use     == result /\ yt # <<>> /\ ask_user(TRUE, useYt)
             renamed == use /\ orch = "process_item" /\ ask_user(FALSE, rename)
             reached == (isUrl => result) /\ fileExists
             asked   == \/ ytAsk
                        \/ result /\ ~auto   \* author and title, 84-85
                        \/ reached /\ orch = "process_item" /\ ~coverKnown /\ ~auto
         IN /\ inputReached' = asked
            /\ tried' = IF result THEN <<"youtube">> ELSE <<>>
            /\ IF reached
               THEN /\ gpc' = "detect"
                    /\ chapters' = IF use
                                   THEN (IF renamed THEN Untitled(yt) ELSE yt)
                                   ELSE <<>>
               ELSE /\ gpc' = "failed"
                    /\ chapters' = <<>>
    /\ UNCHANGED <<orch, auto, kind, duration, ncmds, lastCmd,
                   m4bCalled, m4bChapters>>

\* generate_audiobook.py 126-132, audio_chapter_extractor.py 769-776:
\* embedded chapters are read only when YouTube supplied none.  meta: what
\* extract_metadata_chapters reports; useMeta: the answer to "Use these
\* chapters?".
DetectMetadata ==
    /\ UNCHANGED nonGen
    /\ gpc = "detect"
    /\ IF chapters = <<>>
       THEN \E meta \in SrcLists \cup {Untitled(l) : l \in SrcLists} \cup {<<>>},
               useMeta \in BOOLEAN :
              /\ tried' = Append(tried, "metadata")
              /\ inputReached' = (inputReached \/ (meta # <<>> /\ ~auto))
              /\ chapters' = IF meta # <<>> /\ ask_user(TRUE, useMeta)
                             THEN meta ELSE <<>>
       ELSE UNCHANGED <<tried, inputReached, chapters>>
    /\ gpc' = "transcription"
    /\ UNCHANGED <<orch, auto, kind, duration, ncmds, lastCmd,
                   m4bCalled, m4bChapters>>

\* generate_audiobook.py 134-140, audio_chapter_extractor.py 778-784.
\* transcription: the --transcription flag; starts: the start times of the
\* segments Whisper matched.
DetectTranscription ==
    /\ UNCHANGED nonGen
    /\ gpc = "transcription"
    /\ \E transcription \in BOOLEAN :
         IF chapters = <<>> /\ transcription
         THEN \E starts \in SUBSET Times :
                /\ tried' = Append(tried, "transcription")
                /\ chapters' = detect_chapters_from_transcription(
                                   SortedSeq(starts), duration)
         ELSE UNCHANGED <<tried, chapters>>
    /\ gpc' = "silence"
    /\ UNCHANGED <<orch, auto, kind, inputReached, duration, ncmds,
                   lastCmd, m4bCalled, m4bChapters>>

\* generate_audiobook.py 142-145, audio_chapter_extractor.py 786-789.
\* ends: the silence_end values ffmpeg reports.
DetectSilence ==
    /\ UNCHANGED nonGen
    /\ gpc = "silence"
    /\ IF chapters = <<>>
       THEN \E ends \in SUBSET (Times \ {0}) :
              /\ tried' = Append(tried, "silence")
              /\ chapters' = detect_silence(SortedSeq(ends), duration)
       ELSE UNCHANGED <<tried, chapters>>
    /\ gpc' = "prepare"
    /\ UNCHANGED <<orch, auto, kind, inputReached, duration, ncmds,
                   lastCmd, m4bCalled, m4bChapters>>

\* generate_audiobook.py 147-189, audio_chapter_extractor.py 791-809: the
\* single-chapter fallback, the first clamp, the filter and, under --auto,
\* the rest of the pipeline (validate_chapters is skipped).  min_len is
\* args.min_chapter_len.
Prepare ==
    /\ UNCHANGED nonGen
    /\ gpc = "prepare"
    /\ \E min_len \in 0..MaxMinLen :
       LET c4 == IF chapters = <<>>
                 THEN <<Chap(0, duration, Title("Full Audio"))>>
                 ELSE chapters
           c6 == filter_short_chapters(ClampLast(c4, duration), min_len)
           f  == Finalize(c6)
       IN /\ tried' = IF chapters = <<>> THEN Append(tried, "fallback")
                      ELSE tried
          /\ chapters' = c6
          /\ IF auto
             THEN /\ gpc' = f[1]
                  /\ m4bCalled' = f[2]
                  /\ m4bChapters' = f[3]
             ELSE /\ gpc' = "validate"
                  /\ UNCHANGED <<m4bCalled, m4bChapters>>
    /\ UNCHANGED <<orch, auto, kind, inputReached, duration, ncmds, lastCmd>>

\* the parser of 'a' accepts any float, negative ones included
AddTimes == (0 - 1)..MaxT

\* what the user can type at the prompt of validate_chapters: op "x" stands
\* for every line the loop rejects without looking at the list (unknown
\* command, non-numeric index, unparseable time)
Commands(chs) ==
    {[op |-> o, k |-> 0, title |-> ""] : o \in {"v", "r", "x"}}
    \cup {[op |-> "e", k |-> k, title |-> t] :
             k \in 0..(Len(chs) + 1), t \in {"", "B"}}
    \cup {[op |-> "d", k |-> k, title |-> ""] : k \in 0..(Len(chs) + 1)}
    \cup {[op |-> "a", k |-> k, title |-> "New Chapter"] : k \in AddTimes}

\* chapters.py 229-288: the effect of one command on the list
ApplyCommand(chs, cmd) ==
    IF cmd.op = "e" THEN CmdEdit(chs, cmd.k, cmd.title)
    ELSE IF cmd.op = "d" THEN CmdDelete(chs, cmd.k)
    ELSE IF cmd.op = "a" THEN CmdAdd(chs, cmd.k, cmd.title)
    ELSE chs

\* chapters.py 214-288: one iteration of the loop of validate_chapters; 'v'
\* and 'r' return to the caller, which finishes the pipeline
\* (generate_audiobook.py 171-189, audio_chapter_extractor.py 811-821)
ValidateCmd ==
    /\ UNCHANGED nonGen
    /\ gpc = "validate"
    /\ chapters # <<>> \/ ncmds > 0
    /\ inputReached' = TRUE
    /\ \E cmd \in Commands(chapters) :
         /\ lastCmd' = cmd
         /\ IF cmd.op \in {"v", "r"}
            THEN LET f == Finalize(IF cmd.op = "v" THEN SortByStart(chapters)
                                   ELSE <<>>)
                 IN /\ gpc' = f[1]
                    /\ m4bCalled' = f[2]
                    /\ m4bChapters' = f[3]
                    /\ UNCHANGED <<chapters, ncmds>>
            ELSE /\ ncmds < MaxCmds
                 /\ chapters' = ApplyCommand(chapters, cmd)
                 /\ ncmds' = ncmds + 1
                 /\ UNCHANGED <<gpc, m4bCalled, m4bChapters>>
    /\ UNCHANGED <<orch, auto, kind, tried, duration>>

GenNext ==
    \/ Acquire
    \/ DetectMetadata
    \/ DetectTranscription
    \/ DetectSilence
    \/ Prepare
    \/ ValidateCmd

\* the other components are at rest
InitGen == GenInit /\ MainIdle /\ FixIdle /\ YtIdle /\ BatchIdle /\ ResIdle /\ DlIdle /\ CatIdle /\ SrcIdle /\ ValIdle /\ FltIdle /\ CovIdle /\ RwIdle /\ AuthIdle

SpecGen == InitGen /\ [][GenNext]_vars

(* ----- properties of the chapter pipeline ----------------------------- *)

Ordered(chs) ==
    \A i \in 1..(Len(chs) - 1) : chs[i].start <= chs[i + 1].start

Contiguous(chs) ==
    \A i \in 1..(Len(chs) - 1) : chs[i].end = chs[i + 1].start

\* C2: whenever create_m4b is invoked, by either orchestrator, the chapter
\* list it receives is ordered by start and contiguous (each end equals the
\* next start), whatever the chapter source and whatever e/d/a commands
\* were entered before 'v'.
C2_OrderedContiguous ==
    m4bCalled => (Ordered(m4bChapters) /\ Contiguous(m4bChapters))

\* C3 as claimed: whenever create_m4b is invoked, the last chapter's end
\* equals the duration get_audio_duration returned, whatever that value is.
C3_LastEndIsProbedDuration ==
    m4bCalled => m4bChapters[Len(m4bChapters)].end = duration

\* C3 as amended: whenever get_audio_duration returned a positive duration,
\* the list entering validation (after the first clamp and the filter) and
\* the list create_m4b receives (after the second clamp) both end at that
\* duration; with a duration of 0 neither clamp is applied.
C3_LastEndIsPositiveDuration ==
    /\ (m4bCalled /\ duration > 0) =>
          m4bChapters[Len(m4bChapters)].end = duration
    /\ (gpc = "validate" /\ ncmds = 0 /\ duration > 0) =>
          (chapters # <<>> /\ chapters[Len(chapters)].end = duration)
    /\ (m4bCalled /\ duration = 0 /\ lastCmd.op = "v") =>
          m4bChapters = SortByStart(chapters)

\* create_m4b received a list whose last chapter was added with 'a' (its
\* temporary end was start + TempEnd) and a positive duration was probed
C3_Witness ==
    /\ m4bCalled
    /\ duration > 0
    /\ lastCmd.op = "v"
    /\ ncmds > 0
    /\ Len(m4bChapters) >= 2
    /\ m4bChapters[Len(m4bChapters)].title = Title("New Chapter")
    /\ m4bChapters[Len(m4bChapters)].end = duration

\* C7: under --auto no input() call is reached while an item is processed,
\* whatever the input is (local file, single video, playlist).
C7_AutoNeverPrompts ==
    auto => ~inputReached

\* C22: every format status entry written for a book has as its source the
\* input entry from which that book was resolved; with several input
\* entries, no entry carries another input line.
C22_SourceIsOwnInputEntry ==
    mpc = "formats" =>
        \A i \in 1..Len(formats_status) :
            formats_status[i].source = final_books[bookIdx]

\* C23: at the end of a run every book of the processed list is counted
\* exactly once in the summary, in 'processed' or in 'failed', so the two
\* counters add up to the number of books.
C23_SummaryCountsEachBookOnce ==
    (mpc = "returned" /\ argMode # "fix-chapters") =>
        summary_processed + summary_failed = Len(final_books)



\* C26: when metadata.json is written for a book, every format status entry
\* with downloaded = true has a filename naming a file that exists in the
\* book folder at that moment, and every entry with downloaded = false has
\* no filename
C26_StatusNamesExistingFiles ==
    (mpc = "formats" /\ fmtIdx > Len(download_actions)) =>
        \A i \in 1..Len(formats_status) :
            LET e == formats_status[i]
            IN  /\ e.downloaded =>
                       /\ e.filename # "none"
                       /\ Has(final_books[bookIdx], e.filename)
                /\ ~e.downloaded => e.filename = "none"

\* C25: the pipeline aborts (no create_m4b call, "Aborted" reported) only if
\* the user chose 'r' in validate_chapters; ending the validation loop with
\* 'v', after any sequence of e/d/a commands, leads to the create_m4b call
C25_AbortOnlyOnReset ==
    /\ gpc = "aborted" => lastCmd.op = "r"
    /\ (lastCmd.op = "v" /\ gpc # "validate") => m4bCalled

\* C20: every chapter in the list handed to create_m4b has start >= 0 and
\* end >= start, for every sequence of validate_chapters commands followed
\* by the caller's final clamp to the probed duration.
C20_StartsAndEndsWellFormed ==
    m4bCalled =>
        \A i \in 1..Len(m4bChapters) :
            /\ m4bChapters[i].start >= 0
            /\ m4bChapters[i].end >= m4bChapters[i].start

(***************************************************************************)
(* Local marker repair: src/src/audio_utils.py fix_markers_locally         *)
(***************************************************************************)

\* The lines of an FFMETADATA text the rewrite tells apart:
\*   [kind |-> "header"]            a line whose strip() is "[CHAPTER]"
\*   [kind |-> "title", val |-> v]  a line starting with "title="; v is
\*        "good" (a usable title), "empty", "none" (the text none in any
\*        letter case) or "Chapter" with n = k for the line "title=Chapter k"
\*   [kind |-> "other"]             any other line
Line(k, val, n) == [kind |-> k, val |-> val, n |-> n]
HeaderLine     == Line("header", "", 0)
OtherLine      == Line("other", "", 0)
TitleLine(v)   == Line("title", v, 0)
ChapterTitle(k) == Line("title", "Chapter", k)

InputLines == {HeaderLine, OtherLine, TitleLine("good"), TitleLine("empty"),
               TitleLine("none")}

\* a variant that takes only the empty value for unusable
BadTitleEmptyOnly(line) == line.val = "empty"

\* audio_utils.py 136-137: the title value is empty or "none"
BadTitle(line) == line.val \in {"empty", "none"}

RECURSIVE RewriteLines(_, _, _, _, _)
\* audio_utils.py 120-147: fixed_lines built from lines; the accumulators
\* are fixed_lines, chapter_count, in_chapter and has_title
RewriteLines(lines, fixed_lines, chapter_count, in_chapter, has_title) ==
    IF lines = <<>>
    THEN IF in_chapter /\ ~has_title
         THEN Append(fixed_lines, ChapterTitle(chapter_count))
         ELSE fixed_lines
    ELSE LET line == Head(lines)
         IN IF line.kind = "header"
            THEN RewriteLines(Tail(lines),
                     (IF in_chapter /\ ~has_title
                      THEN Append(fixed_lines, ChapterTitle(chapter_count))
                      ELSE fixed_lines) \o <<line>>,
                     chapter_count + 1, TRUE, FALSE)
            ELSE IF in_chapter /\ line.kind = "title"
                 THEN RewriteLines(Tail(lines),
                          Append(fixed_lines,
                                 IF BadTitle(line)
                                 THEN ChapterTitle(chapter_count) ELSE line),
                          chapter_count, in_chapter, TRUE)
                 ELSE RewriteLines(Tail(lines), Append(fixed_lines, line),
                                   chapter_count, in_chapter, has_title)

FixedLines(lines) == RewriteLines(lines, <<>>, 0, FALSE, FALSE)

\* fix_chapters_in_folder (main.py 43-48) calls the repair on a file os.walk
\* has just listed; the file may be gone by the time of the call
FixInit ==
    /\ xpc = "start"
    /\ atInput \in {"original", "none"}
    /\ atTmp = "none"
    /\ embedded \in SeqsUpTo(InputLines, MaxLines)
    /\ metaText = NoFile
    /\ xret = "unset"
    /\ existed = (atInput = "original")

\* audio_utils.py 105-109
FixStart ==
    /\ UNCHANGED nonFix
    /\ xpc = "start"
    /\ IF atInput = "none"
       THEN xpc' = "returned" /\ xret' = "False"
       ELSE xpc' = "extract" /\ UNCHANGED xret
    /\ UNCHANGED <<atInput, atTmp, embedded, metaText>>
    /\ UNCHANGED existed

\* audio_utils.py 112-114: ffmpeg writes the metadata file; with check=True
\* a failure raises (a truncated file may be left behind)
ExtractMetadata ==
    /\ UNCHANGED nonFix
    /\ xpc = "extract"
    /\ \E ok \in BOOLEAN, left \in BOOLEAN :
         IF ok
         THEN /\ metaText' = embedded
              /\ xpc' = "rewrite"
              /\ UNCHANGED xret
         ELSE /\ metaText' = IF left THEN <<>> ELSE NoFile
              /\ xpc' = "finally"
              /\ xret' = "False"
    /\ UNCHANGED <<atInput, atTmp, embedded>>
    /\ UNCHANGED existed

\* audio_utils.py 116-150: the file is read, rewritten and written back; a
\* read or write error raises
RewriteMetadata ==
    /\ UNCHANGED nonFix
    /\ xpc = "rewrite"
    /\ \E ok \in BOOLEAN :
         IF ok
         THEN /\ metaText' = FixedLines(metaText)
              /\ xpc' = "embed"
              /\ UNCHANGED xret
         ELSE /\ xpc' = "finally"
              /\ xret' = "False"
              /\ UNCHANGED metaText
    /\ UNCHANGED <<atInput, atTmp, embedded>>
    /\ UNCHANGED existed

\* audio_utils.py 152-164 and 169-171: the stream copy into output_path; a
\* non-zero exit returns False (ffmpeg may leave a partial file), a failure
\* to start ffmpeg raises
Embed ==
    /\ UNCHANGED nonFix
    /\ xpc = "embed"
    /\ \E rc \in {"zero", "nonzero", "nonzero_partial", "raise"} :
         /\ atTmp' = IF rc = "zero" THEN "fixed"
                     ELSE IF rc = "nonzero_partial" THEN "partial" ELSE "none"
         /\ IF rc = "zero"
            THEN xpc' = "remove" /\ UNCHANGED xret
            ELSE xpc' = "finally" /\ xret' = "False"
    /\ UNCHANGED <<atInput, embedded, metaText>>
    /\ UNCHANGED existed

\* audio_utils.py 166: os.remove(input_path)
RemoveResult(ok) == IF ok THEN "none" ELSE atInput

\* audio_utils.py 166 (and 173-175 when it raises)
RemoveOriginal ==
    /\ UNCHANGED nonFix
    /\ xpc = "remove"
    /\ \E ok \in BOOLEAN :
         /\ atInput' = RemoveResult(ok)
         /\ IF ok
            THEN xpc' = "rename" /\ UNCHANGED xret
            ELSE xpc' = "finally" /\ xret' = "False"
    /\ UNCHANGED <<atTmp, embedded, metaText>>
    /\ UNCHANGED existed

\* audio_utils.py 167-168 (and 173-175 when os.rename raises)
RenameFixed ==
    /\ UNCHANGED nonFix
    /\ xpc = "rename"
    /\ \E ok \in BOOLEAN :
         IF ok
         THEN /\ atInput' = atTmp
              /\ atTmp' = "none"
              /\ embedded' = metaText
              /\ xret' = "True"
         ELSE /\ xret' = "False"
              /\ UNCHANGED <<atInput, atTmp, embedded>>
    /\ UNCHANGED existed
    /\ xpc' = "finally"
    /\ UNCHANGED <<metaText, existed>>

\* audio_utils.py 176-180: the metadata file and output_path are removed
FixFinally ==
    /\ UNCHANGED nonFix
    /\ xpc = "finally"
    /\ metaText' = NoFile
    /\ atTmp' = "none"
    /\ xpc' = "returned"
    /\ UNCHANGED <<atInput, embedded, xret, existed>>

FixNext ==
    \/ FixStart
    \/ ExtractMetadata
    \/ RewriteMetadata
    \/ Embed
    \/ RemoveOriginal
    \/ RenameFixed
    \/ FixFinally

\* the other components are at rest
InitFix == FixInit /\ MainIdle /\ GenIdle /\ YtIdle /\ BatchIdle /\ ResIdle /\ DlIdle /\ CatIdle /\ SrcIdle /\ ValIdle /\ FltIdle /\ CovIdle /\ RwIdle /\ AuthIdle

SpecFix == InitFix /\ [][FixNext]_vars

\* C4: fix_markers_locally replaces the file atomically: when the file was
\* there at the start of the call, in every state during and after the
\* call -- also when the remux fails or when os.remove or os.rename raises
\* -- a complete file, the original or the corrected copy, is at input_path.
C4_InputPathNeverEmpty ==
    (existed /\ xpc \notin {"idle", "start"})
        => atInput \in {"original", "fixed"}

(***************************************************************************)
(* YouTube acquirer: src/audio_extractor/youtube.py download_youtube_audio *)
(* and src/audio_extractor/audio.py concatenate_audio_files                *)
(***************************************************************************)

\* A path of output_dir is <<kind, session id, key>>.
\* youtube.py 245 and 247: the per-item audio file of a session; the index
\* segment is the playlist_index of the item
PartPath(sid, idx) ==
    <<(IF is_playlist THEN "yt_part_mp3" ELSE "yt_download_mp3"), sid, <<idx>>>>

\* youtube.py 258: the thumbnail written next to the audio file
ThumbPath(sid, idx) ==
    <<(IF is_playlist THEN "yt_part_jpg" ELSE "yt_download_jpg"), sid, <<idx>>>>

\* youtube.py 216 and 231: cover_{session_id}.jpg
CoverPath(sid) == <<"cover_jpg", sid, <<>>>>

\* youtube.py 179-181: distinct id lists are given distinct hashes
order_hash(id_list) == id_list

\* youtube.py 183: {safe_title}_{order_hash}.mp3, no session id in it
FinalPath(id_list) == <<"final_mp3", 0, order_hash(id_list)>>

\* audio.py 89: f"{output_path}.list.txt"
ListPath(output_path) == <<"list_txt", output_path[2], output_path[3]>>

\* the *.jpg files of output_dir (youtube.py 210)
IsJpg(path) == path[1] \in {"yt_part_jpg", "yt_download_jpg", "cover_jpg"}

\* youtube.py 101: the entries of the URL, by original index
AllEntries == IF is_playlist THEN [i \in 1..NumEntries |-> i] ELSE <<1>>

\* what can be typed at the selection prompt: comma separated numbers
SelectionInputs == SeqsUpTo(1..(NumEntries + 1), MaxSel)

\* youtube.py 130-160: the retained entries, <<>> for "no valid videos"
Selected(selection_input) ==
    IF selection_input = <<>> THEN AllEntries
    ELSE FilterSeq(selection_input, 1..Len(AllEntries))

YtInit ==
    /\ is_playlist \in BOOLEAN
    /\ ypc = [p \in Procs |-> "select"]
    /\ entries = [p \in Procs |-> <<>>]
    /\ downloaded_files = [p \in Procs |-> <<>>]
    /\ pairs = [p \in Procs |-> <<>>]
    /\ yfs = {}
    /\ listContent = 0
    /\ touches = {}
    /\ yret = [p \in Procs |-> <<>>]

Touch(paths, p) == touches \cup {<<path, p>> : path \in paths}

\* youtube.py 100-185: the entries, the selection prompt of a playlist and
\* the test for the cached final file
YtSelect(p) ==
    /\ UNCHANGED nonYt
    /\ ypc[p] = "select"
    /\ \E selection_input \in (IF is_playlist THEN SelectionInputs ELSE {<<>>}) :
         LET sel == Selected(selection_input)
         IN /\ entries' = [entries EXCEPT ![p] = sel]
            /\ ypc' = [ypc EXCEPT ![p] =
                          IF sel = <<>> THEN "failed"
                          ELSE IF FinalPath(sel) \in yfs THEN "cached"
                          ELSE "download"]
    /\ UNCHANGED <<is_playlist, downloaded_files, pairs, yfs, listContent,
                   touches, yret>>

\* youtube.py 185-238: the final file is there; any *.jpg of output_dir is
\* taken as the cover, else the thumbnail is fetched to cover_{session_id}
YtCached(p) ==
    /\ UNCHANGED nonYt
    /\ ypc[p] = "cached"
    /\ LET found_covers == {path \in yfs : IsJpg(path)}
       IN IF found_covers # {}
          THEN /\ \E cover_path \in found_covers :
                    touches' = Touch({cover_path}, p)
               /\ UNCHANGED yfs
          ELSE \E fetched \in BOOLEAN :
                 IF fetched
                 THEN /\ yfs' = yfs \cup {CoverPath(p)}
                      /\ touches' = Touch({CoverPath(p)}, p)
                 ELSE UNCHANGED <<yfs, touches>>
    /\ yret' = [yret EXCEPT ![p] = FinalPath(entries[p])]
    /\ ypc' = [ypc EXCEPT ![p] = "done"]
    /\ UNCHANGED <<is_playlist, entries, downloaded_files, pairs, listContent>>

\* youtube.py 241-275: yt-dlp writes the audio file and the thumbnail of
\* each requested item under the session's template; items can fail
YtDownload(p) ==
    /\ UNCHANGED nonYt
    /\ ypc[p] = "download"
    /\ \E rc_ok \in BOOLEAN, got \in SUBSET Range(entries[p]),
          thumbs \in BOOLEAN :
         LET written == {PartPath(p, i) : i \in got}
                        \cup (IF thumbs THEN {ThumbPath(p, i) : i \in got}
                              ELSE {})
         IN /\ yfs' = yfs \cup written
            /\ touches' = Touch(written, p)
            /\ ypc' = [ypc EXCEPT ![p] = IF rc_ok THEN "resolve" ELSE "failed"]
    /\ UNCHANGED <<is_playlist, entries, downloaded_files, pairs, listContent,
                   yret>>

\* youtube.py 319: the entry the i-th resolved file is paired with
PairedEntry(ents, i) == ents[i]

\* youtube.py 278-337: the files of the session are resolved by the original
\* index of each retained entry, a missing file is skipped, and the chapter
\* block of the i-th resolved file is built from the paired entry
YtResolve(p) ==
    /\ UNCHANGED nonYt
    /\ ypc[p] = "resolve"
    /\ LET files == FilterSeq(entries[p],
                        {i \in Range(entries[p]) : PartPath(p, i) \in yfs})
       IN /\ downloaded_files' = [downloaded_files EXCEPT ![p] = files]
          /\ touches' = Touch({PartPath(p, i) : i \in Range(files)}, p)
          /\ IF files = <<>>
             THEN /\ ypc' = [ypc EXCEPT ![p] = "failed"]
                  /\ UNCHANGED pairs
             ELSE /\ pairs' = [pairs EXCEPT ![p] =
                        [i \in 1..Len(files) |->
                            <<files[i], PairedEntry(entries[p], i)>>]]
                  /\ ypc' = [ypc EXCEPT ![p] =
                        IF Len(files) = 1 THEN "concat_single"
                        ELSE "concat_write"]
    /\ UNCHANGED <<is_playlist, entries, yfs, listContent, yret>>

\* audio.py 82-86: one file, renamed to the output path
ConcatSingle(p) ==
    /\ UNCHANGED nonYt
    /\ ypc[p] = "concat_single"
    /\ LET part == PartPath(p, downloaded_files[p][1])
           output_path == FinalPath(entries[p])
       IN /\ yfs' = (yfs \ {part}) \cup {output_path}
          /\ touches' = Touch({part}, p)
          /\ yret' = [yret EXCEPT ![p] = output_path]
    /\ ypc' = [ypc EXCEPT ![p] = "done"]
    /\ UNCHANGED <<is_playlist, entries, downloaded_files, pairs, listContent>>

\* audio.py 89-97: the concat list is written
ConcatWriteList(p) ==
    /\ UNCHANGED nonYt
    /\ ypc[p] = "concat_write"
    /\ LET list_file == ListPath(FinalPath(entries[p]))
       IN /\ yfs' = yfs \cup {list_file}
          /\ touches' = Touch({list_file}, p)
    /\ listContent' = p
    /\ ypc' = [ypc EXCEPT ![p] = "concat_run"]
    /\ UNCHANGED <<is_playlist, entries, downloaded_files, pairs, yret>>

\* audio.py 99-116 and youtube.py 340-350: ffmpeg reads the list file and
\* the files it names and writes the output path
ConcatRun(p) ==
    /\ UNCHANGED nonYt
    /\ ypc[p] = "concat_run"
    /\ LET output_path == FinalPath(entries[p])
           list_file == ListPath(output_path)
           named == IF listContent = 0 THEN {}
                    ELSE {PartPath(listContent, i) :
                             i \in Range(downloaded_files[listContent])}
       IN IF list_file \in yfs
          THEN \E rc_ok \in BOOLEAN :
                 /\ rc_ok => named \subseteq yfs
                 /\ touches' = Touch({list_file} \cup (named \cap yfs), p)
                 /\ yfs' = IF rc_ok THEN yfs \cup {output_path} ELSE yfs
                 /\ yret' = [yret EXCEPT ![p] =
                               IF rc_ok THEN output_path
                               ELSE PartPath(p, downloaded_files[p][1])]
          ELSE /\ yret' = [yret EXCEPT ![p] =
                              PartPath(p, downloaded_files[p][1])]
               /\ UNCHANGED <<yfs, touches>>
    /\ ypc' = [ypc EXCEPT ![p] = "concat_clean"]
    /\ UNCHANGED <<is_playlist, entries, downloaded_files, pairs, listContent>>

\* audio.py 117-127: the list file and the parts are removed
ConcatFinally(p) ==
    /\ UNCHANGED nonYt
    /\ ypc[p] = "concat_clean"
    /\ LET list_file == ListPath(FinalPath(entries[p]))
           parts == {PartPath(p, i) : i \in Range(downloaded_files[p])}
           removed == ({list_file} \cup parts) \cap yfs
       IN /\ yfs' = yfs \ removed
          /\ touches' = Touch(removed, p)
          /\ listContent' = IF list_file \in yfs THEN 0 ELSE listContent
    /\ ypc' = [ypc EXCEPT ![p] = "done"]
    /\ UNCHANGED <<is_playlist, entries, downloaded_files, pairs, yret>>

YtNext ==
    \E p \in Procs :
        \/ YtSelect(p)
        \/ YtCached(p)
        \/ YtDownload(p)
        \/ YtResolve(p)
        \/ ConcatSingle(p)
        \/ ConcatWriteList(p)
        \/ ConcatRun(p)
        \/ ConcatFinally(p)

\* the other components are at rest
InitYT == YtInit /\ MainIdle /\ GenIdle /\ FixIdle /\ BatchIdle /\ ResIdle /\ DlIdle /\ CatIdle /\ SrcIdle /\ ValIdle /\ FltIdle /\ CovIdle /\ RwIdle /\ AuthIdle

SpecYT == InitYT /\ [][YtNext]_vars

\* C8: two concurrent invocations of download_youtube_audio on one output
\* directory never create, read or delete the same temporary or
\* intermediate path (per-part audio, thumbnails, concat list); only the
\* final output path may be shared.
C8_NoSharedTempPath ==
    \A t1 \in touches, t2 \in touches :
        (t1[1] = t2[1] /\ t1[1][1] # "final_mp3") => t1[2] = t2[2]

\* C9: on a playlist, for every selection and every set of missing files,
\* each resolved file is paired with the entry whose original index is the
\* file's index segment, and the files are concatenated in the selected
\* order.
C9_FilePairedWithItsEntry ==
    \A p \in Procs :
        /\ \A i \in DOMAIN pairs[p] : pairs[p][i][1] = pairs[p][i][2]
        /\ downloaded_files[p] =
               FilterSeq(entries[p], Range(downloaded_files[p]))

\* C24: whenever download_youtube_audio returns a result, the audio path in
\* it names a file that exists at return time, also when the concatenation
\* reported failure; an unrecoverable step yields an absent result.
C24_ReturnedAudioPathExists ==
    \A p \in Procs :
        /\ ypc[p] = "done" => yret[p] \in yfs
        /\ ypc[p] = "failed" => yret[p] = <<>>

(***************************************************************************)
(* Batch generator: src/generate_audiobook.py main                         *)
(***************************************************************************)

\* An input (a path or a URL) is a number 1..NumItems.  A stripped line of
\* the batch file is an input, BlankLine or CommentLine (a line that starts
\* with '#').
BlankLine   == 0
CommentLine == 0 - 1
Items       == 1..NumItems
BatchLines  == Items \cup {BlankLine, CommentLine}

RECURSIVE QueueLines(_, _)
\* generate_audiobook.py 232-235: the loop over the lines of the batch file
QueueLines(queue, lines) ==
    IF lines = <<>> THEN queue
    ELSE QueueLines(IF Head(lines) # BlankLine /\ Head(lines) # CommentLine
                    THEN Append(queue, Head(lines)) ELSE queue,
                    Tail(lines))

BatchInit ==
    /\ bpc = "start"
    /\ debug \in BOOLEAN
    /\ input_arg \in Items \cup {0}
    /\ batch \in {"none", "missing", "file"}
    /\ batch_lines \in SeqsUpTo(BatchLines, MaxBatchLines)
    /\ batch # "file" => batch_lines = <<>>
    /\ inputs = <<>>
    /\ itemIdx = 0
    /\ processed = <<>>
    /\ outcomes = <<>>

\* generate_audiobook.py 224-244: the queue is built; a missing batch file
\* or an empty queue exits with status 1
BuildQueue ==
    /\ UNCHANGED nonBatch
    /\ bpc = "start"
    /\ LET q0 == IF input_arg # 0 THEN <<input_arg>> ELSE <<>>
           q1 == IF batch = "file" THEN QueueLines(q0, batch_lines) ELSE q0
       IN IF batch = "missing"
          THEN /\ inputs' = q0
               /\ bpc' = "exit1"
               /\ itemIdx' = 0
          ELSE /\ inputs' = q1
               /\ bpc' = IF q1 = <<>> THEN "exit1" ELSE "loop"
               /\ itemIdx' = IF q1 = <<>> THEN 0 ELSE 1
    /\ UNCHANGED <<debug, input_arg, batch, batch_lines, processed, outcomes>>

\* a variant whose handler re-raises whatever the flag
ReraisesAlways(dbg) == TRUE

\* generate_audiobook.py 251-253: the handler re-raises only under --debug
Reraises(dbg) == dbg

\* generate_audiobook.py 246-253: one iteration of the loop.  outcome is how
\* process_item ends: "done" (create_m4b was reached), "returned" (an early
\* return: download failed, input missing, chapters rejected) or "raised"
\* (an Exception)
ProcessNext ==
    /\ UNCHANGED nonBatch
    /\ bpc = "loop"
    /\ itemIdx <= Len(inputs)
    /\ processed' = Append(processed, inputs[itemIdx])
    /\ \E outcome \in {"done", "returned", "raised"} :
         /\ outcomes' = Append(outcomes, outcome)
         /\ IF outcome = "raised" /\ Reraises(debug)
            THEN bpc' = "raised" /\ UNCHANGED itemIdx
            ELSE bpc' = bpc /\ itemIdx' = itemIdx + 1
    /\ UNCHANGED <<debug, input_arg, batch, batch_lines, inputs>>

\* generate_audiobook.py 246: the queue is exhausted, main returns
BatchDone ==
    /\ UNCHANGED nonBatch
    /\ bpc = "loop"
    /\ itemIdx > Len(inputs)
    /\ bpc' = "done"
    /\ UNCHANGED <<debug, input_arg, batch, batch_lines, inputs, itemIdx,
                   processed, outcomes>>

BatchNext ==
    \/ BuildQueue
    \/ ProcessNext
    \/ BatchDone

\* the other components are at rest
InitBatch == BatchInit /\ MainIdle /\ GenIdle /\ FixIdle /\ YtIdle /\ ResIdle /\ DlIdle /\ CatIdle /\ SrcIdle /\ ValIdle /\ FltIdle /\ CovIdle /\ RwIdle /\ AuthIdle

SpecBatch == InitBatch /\ [][BatchNext]_vars

\* the queue the claim describes: the positional input first, then the
\* lines of the batch file that are neither blank nor comments
ExpectedQueue ==
    (IF input_arg # 0 THEN <<input_arg>> ELSE <<>>)
        \o (IF batch = "file" THEN FilterSeq(batch_lines, Items) ELSE <<>>)

\* C12: without --debug process_item is invoked exactly once per queued item
\* in queue order (positional input first, then the batch lines that are
\* neither blank nor comments), whatever earlier items did: during the loop
\* the calls made are the first items of the queue, the run never stops on
\* an item's exception, and when main returns every item was processed.
C12_EveryItemProcessedInOrder ==
    (~debug /\ bpc \notin {"start", "exit1", "idle"}) =>
        /\ bpc \in {"loop", "done"}
        /\ inputs = ExpectedQueue
        /\ Len(processed) = itemIdx - 1
        /\ processed = SubSeq(ExpectedQueue, 1, Len(processed))
        /\ bpc = "done" => processed = ExpectedQueue

\* a batch whose first item raised and whose later items were processed
C12_Witness ==
    /\ ~debug
    /\ bpc = "done"
    /\ input_arg # 0
    /\ CommentLine \in Range(batch_lines)
    /\ Len(processed) >= 3
    /\ outcomes[1] = "raised"
    /\ outcomes[2] = "returned"

(***************************************************************************)
(* URL resolution: src/src/main.py main, lines 125-264                     *)
(***************************************************************************)

\* An entry of the input file: a book reference with an extractable id, an
\* author or series URL with an extractable id ("entity"), an author or
\* series URL without one, or a book reference without an id ("invalid")
Entry(k, id) == [k |-> k, id |-> id]
EntryKinds == {Entry("book", b) : b \in Books}
              \cup {Entry("entity", 0), Entry("entity_noid", 0),
                    Entry("invalid", 0)}

\* main.py 170-187: what the loop reads of an item of a page: its id (0 when
\* absent) and its list of format identifiers
ListItem(id, formats) == [id |-> id, formats |-> formats]
ListItems == {ListItem(id, f) : id \in Books \cup {0},
                                f \in SUBSET {"ABOOK", "EBOOK"}}

\* a page holds at most one item here
PageContents == {<<>>} \cup {<<i>> : i \in ListItems}

\* main.py 157-162
required_formats(mode) ==
    IF mode = "audio" THEN {"ABOOK"}
    ELSE IF mode = "ebook" THEN {"EBOOK"}
    ELSE {"ABOOK", "EBOOK"}

\* main.py 171-178: the item is kept
KeepsItem(item, mode) ==
    item.id # 0 /\ (item.formats \cap required_formats(mode)) # {}

RECURSIVE KeptIds(_, _)
\* main.py 170-187: the ids a page adds to resolved_books
KeptIds(items, mode) ==
    IF items = <<>> THEN <<>>
    ELSE (IF KeepsItem(Head(items), mode) THEN <<Head(items).id>> ELSE <<>>)
         \o KeptIds(Tail(items), mode)

\* storytel_api.py 1-264: the functions the module defines
ApiFunctions == {"get_common_headers", "login", "get_book_details",
                 "_download_stream", "download_audiobook",
                 "get_audiobook_markers", "download_ebook", "download_cover"}

\* the page the service answers a cursor with, and the cursor it returns
\* (0: no nextPageCursor)
PageAt(c) == IF c + 1 <= Len(service) THEN service[c + 1] ELSE <<>>
NextCursor(c) == IF c + 1 < Len(service) THEN c + 1 ELSE 0

ResInit ==
    /\ rpc = "lines"
    /\ rmode \in {"audio", "ebook", "both"}
    /\ rinteractive \in BOOLEAN
    /\ rurls \in SeqsUpTo(EntryKinds, MaxUrls)
    /\ urlIdx = 1
    /\ cursor = 0
    /\ service \in SeqsUpTo(PageContents, MaxPages)
    /\ listCalls = <<>>
    /\ resolved_books = <<>>
    /\ book_ids = <<>>
    /\ idIdx = 0
    /\ visited = <<>>

\* main.py 135-164 and 196-211: one entry of the input file; an author or
\* series entry with an id starts the paging with the empty cursor
ResolveEntry ==
    /\ UNCHANGED nonRes
    /\ rpc = "lines"
    /\ urlIdx <= Len(rurls)
    /\ LET e == rurls[urlIdx]
       IN IF e.k = "entity"
          THEN /\ cursor' = 0
               /\ rpc' = "paging"
               /\ UNCHANGED <<urlIdx, resolved_books>>
          ELSE /\ resolved_books' = IF e.k = "book"
                                    THEN Append(resolved_books, e.id)
                                    ELSE resolved_books
               /\ urlIdx' = urlIdx + 1
               /\ UNCHANGED <<rpc, cursor>>
    /\ UNCHANGED <<rmode, rinteractive, rurls, service, listCalls, book_ids,
                   idIdx, visited>>

\* main.py 165-195: one iteration of the paging loop.  The attribute
\* storytel_api.get_dynamic_book_list is looked up inside the try block; the
\* module defines no such function, the AttributeError is caught at line 193
\* and the loop is left.
ExpandPage ==
    /\ UNCHANGED nonRes
    /\ rpc = "paging"
    /\ IF "get_dynamic_book_list" \in ApiFunctions
       THEN /\ listCalls' = Append(listCalls, cursor)
            /\ resolved_books' =
                  resolved_books \o KeptIds(PageAt(cursor), rmode)
            /\ cursor' = NextCursor(cursor)
            /\ IF NextCursor(cursor) = 0
               THEN rpc' = "lines" /\ urlIdx' = urlIdx + 1
               ELSE UNCHANGED <<rpc, urlIdx>>
       ELSE /\ rpc' = "lines"
            /\ urlIdx' = urlIdx + 1
            /\ UNCHANGED <<listCalls, resolved_books, cursor>>
    /\ UNCHANGED <<rmode, rinteractive, rurls, service, book_ids, idIdx,
                   visited>>

\* main.py 213-261: de-duplication and the interactive selection; sel is the
\* set of valid indices typed (empty: keep all)
DedupeAndSelect ==
    /\ UNCHANGED nonRes
    /\ rpc = "lines"
    /\ urlIdx > Len(rurls)
    /\ LET final_list == Dedup(resolved_books, {})
       IN \E sel \in SUBSET (1..Len(final_list)) :
            book_ids' = IF rinteractive /\ Len(final_list) > 1
                        THEN SelectBooks(final_list, sel)
                        ELSE final_list
    /\ idIdx' = 1
    /\ rpc' = "loop"
    /\ UNCHANGED <<rmode, rinteractive, rurls, urlIdx, cursor, service,
                   listCalls, resolved_books, visited>>

\* main.py 263-408: one iteration of the book loop; whatever the body does
\* (continue at line 274, the handler of lines 403-408) the loop goes on
\* with the next id
VisitBook ==
    /\ UNCHANGED nonRes
    /\ rpc = "loop"
    /\ idIdx <= Len(book_ids)
    /\ visited' = Append(visited, book_ids[idIdx])
    /\ idIdx' = idIdx + 1
    /\ UNCHANGED <<rpc, rmode, rinteractive, rurls, urlIdx, cursor, service,
                   listCalls, resolved_books, book_ids>>

\* main.py 410
BooksDone ==
    /\ UNCHANGED nonRes
    /\ rpc = "loop"
    /\ idIdx > Len(book_ids)
    /\ rpc' = "done"
    /\ UNCHANGED <<rmode, rinteractive, rurls, urlIdx, cursor, service,
                   listCalls, resolved_books, book_ids, idIdx, visited>>

ResNext ==
    \/ ResolveEntry
    \/ ExpandPage
    \/ DedupeAndSelect
    \/ VisitBook
    \/ BooksDone

\* the other components are at rest
InitRes == ResInit /\ MainIdle /\ GenIdle /\ FixIdle /\ YtIdle /\ BatchIdle /\ DlIdle /\ CatIdle /\ SrcIdle /\ ValIdle /\ FltIdle /\ CovIdle /\ RwIdle /\ AuthIdle

SpecRes == InitRes /\ [][ResNext]_vars

\* position of the first occurrence of x in s (0 when absent)
FirstIndex(s, x) ==
    IF x \in Range(s) THEN CHOOSE i \in 1..Len(s) :
                              s[i] = x /\ \A j \in 1..(i - 1) : s[j] # x
    ELSE 0

RECURSIVE ServedIds(_, _)
\* the ids of the items of the pages that have an id and a format the mode
\* asks for, in page order
ServedIds(pages, mode) ==
    IF pages = <<>> THEN <<>>
    ELSE KeptIds(Head(pages), mode) \o ServedIds(Tail(pages), mode)

RECURSIVE ExpectedResolved(_, _)
\* the resolved list the claim describes for a list of entries
ExpectedResolved(es, mode) ==
    IF es = <<>> THEN <<>>
    ELSE (IF Head(es).k = "book" THEN <<Head(es).id>>
          ELSE IF Head(es).k = "entity" THEN ServedIds(service, mode)
          ELSE <<>>)
         \o ExpectedResolved(Tail(es), mode)

\* C14: for an author or series entry with an id, main pages through the
\* listing from the empty cursor on and the resolved list receives, in page
\* order, every served item that has an id and a format matching the mode.
C14_ExpansionCollectsEveryPage ==
    rpc \in {"loop", "done"} =>
        resolved_books = ExpectedResolved(rurls, rmode)

(***************************************************************************)
(* Audiobook download: src/src/storytel_api.py download_audiobook and      *)
(* _download_stream                                                        *)
(***************************************************************************)

DlInit ==
    /\ dpc = "request"
    /\ targetFile \in {"none", "old"}
    /\ targetBefore = targetFile
    /\ partFile = "none"
    /\ partBefore = "none"
    /\ total \in 0..MaxChunks
    /\ nwritten = 0
    /\ dfailed = "no"
    /\ dres = "unset"
    /\ ncalls = 1

\* storytel_api.py 125-133: the request to the asset endpoint; a network
\* error, a status other than 302 and a missing Location header raise
RequestAsset ==
    /\ UNCHANGED nonDl
    /\ dpc = "request"
    /\ \E answer \in {"302", "302_no_location", "other_status", "error"} :
         IF answer = "302"
         THEN dpc' = "get" /\ UNCHANGED dfailed
         ELSE dpc' = "outer_handler" /\ dfailed' = "request"
    /\ UNCHANGED <<targetFile, partFile, targetBefore, total, nwritten, dres,
                   partBefore, ncalls>>

\* storytel_api.py 88-90: the streamed GET of the redirected URL and
\* raise_for_status
OpenStream ==
    /\ UNCHANGED nonDl
    /\ dpc = "get"
    /\ \E ok \in BOOLEAN :
         IF ok THEN dpc' = "open" /\ UNCHANGED dfailed
         ELSE dpc' = "handler" /\ dfailed' = "stream"
    /\ UNCHANGED <<targetFile, partFile, targetBefore, total, nwritten, dres,
                   partBefore, ncalls>>

\* storytel_api.py 92: open(temp_path, 'wb') truncates or creates the file
OpenPart ==
    /\ UNCHANGED nonDl
    /\ dpc = "open"
    /\ \E ok \in BOOLEAN :
         IF ok
         THEN /\ partFile' = IF total = 0 THEN "complete" ELSE "partial"
              /\ dpc' = "stream"
              /\ UNCHANGED dfailed
         ELSE /\ dpc' = "handler"
              /\ dfailed' = "stream"
              /\ UNCHANGED partFile
    /\ UNCHANGED <<targetFile, targetBefore, total, nwritten, dres, partBefore,
                   ncalls>>

\* storytel_api.py 100-103: one chunk is read and nwritten; the connection
\* or the disk can fail at any chunk
WriteChunk ==
    /\ UNCHANGED nonDl
    /\ dpc = "stream"
    /\ nwritten < total
    /\ \E ok \in BOOLEAN :
         IF ok
         THEN /\ nwritten' = nwritten + 1
              /\ partFile' = IF nwritten + 1 = total THEN "complete"
                             ELSE "partial"
              /\ UNCHANGED <<dpc, dfailed>>
         ELSE /\ dpc' = "handler"
              /\ dfailed' = "stream"
              /\ UNCHANGED <<nwritten, partFile>>
    /\ UNCHANGED <<targetFile, targetBefore, total, dres, partBefore, ncalls>>

\* storytel_api.py 105: os.rename(temp_path, target_path)
RenamePart ==
    /\ UNCHANGED nonDl
    /\ dpc = "stream"
    /\ nwritten = total
    /\ \E ok \in BOOLEAN :
         IF ok
         THEN /\ targetFile' = partFile
              /\ partFile' = "none"
              /\ dpc' = "returned"
              /\ dres' = "ok"
              /\ UNCHANGED dfailed
         ELSE /\ dpc' = "handler"
              /\ dfailed' = "stream"
              /\ UNCHANGED <<targetFile, partFile, dres>>
    /\ UNCHANGED <<targetBefore, total, nwritten, partBefore, ncalls>>

\* a variant of the handler that leaves the .part file behind
AfterHandlerKeepsPart(part) == part

\* storytel_api.py 108-109: the .part file is removed when it exists
AfterHandler(part) == "none"

\* storytel_api.py 106-110: the handler of _download_stream removes the
\* .part file and re-raises
StreamHandler ==
    /\ UNCHANGED nonDl
    /\ dpc = "handler"
    /\ partFile' = AfterHandler(partFile)
    /\ dpc' = "outer_handler"
    /\ UNCHANGED <<targetFile, targetBefore, total, nwritten, dfailed, dres,
                   partBefore, ncalls>>

\* storytel_api.py 137-139: the handler of download_audiobook re-raises
OuterHandler ==
    /\ UNCHANGED nonDl
    /\ dpc = "outer_handler"
    /\ dpc' = "returned"
    /\ dres' = "raised"
    /\ UNCHANGED <<targetFile, partFile, targetBefore, total, nwritten,
                   dfailed, partBefore, ncalls>>

\* storytel_api.py 106: the handler catches Exception only; a
\* KeyboardInterrupt while the body is streamed leaves the function with
\* the .part file as it is
Interrupt ==
    /\ UNCHANGED nonDl
    /\ dpc = "stream"
    /\ dpc' = "returned"
    /\ dres' = "interrupted"
    /\ UNCHANGED <<targetFile, partFile, targetBefore, total, nwritten,
                   dfailed, partBefore, ncalls>>

\* main.py 353: the function is called again for the same target path, in
\* a later run or after an interruption
CallAgain ==
    /\ UNCHANGED nonDl
    /\ dpc = "returned"
    /\ ncalls < MaxCalls
    /\ ncalls' = ncalls + 1
    /\ dpc' = "request"
    /\ targetBefore' = targetFile
    /\ partBefore' = partFile
    /\ total' \in 0..MaxChunks
    /\ nwritten' = 0
    /\ dfailed' = "no"
    /\ dres' = "unset"
    /\ UNCHANGED <<targetFile, partFile>>

DlNext ==
    \/ Interrupt
    \/ CallAgain
    \/ RequestAsset
    \/ OpenStream
    \/ OpenPart
    \/ WriteChunk
    \/ RenamePart
    \/ StreamHandler
    \/ OuterHandler

\* the other components are at rest
InitDl == DlInit /\ MainIdle /\ GenIdle /\ FixIdle /\ YtIdle /\ BatchIdle /\ ResIdle /\ CatIdle /\ SrcIdle /\ ValIdle /\ FltIdle /\ CovIdle /\ RwIdle /\ AuthIdle

SpecDl == InitDl /\ [][DlNext]_vars

OutputPath == 0
ListFile == 0 - 1
PartPaths == 1..MaxParts

\* the lists download_youtube_audio passes (youtube.py 278-340): the parts
\* found on disk, each under its own temporary name
InputLists ==
    {s \in SeqsUpTo(PartPaths, MaxParts) :
        \A i, j \in 1..Len(s) : i # j => s[i] # s[j]}

CatInit ==
    /\ cpc = "start"
    /\ file_list \in InputLists
    /\ \E before \in SUBSET {OutputPath} : cfs = Range(file_list) \cup before
    /\ undeletable \in SUBSET (Range(file_list) \cup {OutputPath, ListFile})
    /\ copy_rc = 0 - 1
    /\ reenc_rc = 0 - 1
    /\ pending = "unset"
    /\ cret = "unset"
    /\ tool_calls = 0

\* audio.py 80-81: nothing to concatenate
CatEmpty ==
    /\ UNCHANGED nonCat
    /\ cpc = "start"
    /\ file_list = <<>>
    /\ cret' = "false"
    /\ cpc' = "done"
    /\ UNCHANGED <<file_list, cfs, undeletable, copy_rc, reenc_rc, pending,
                   tool_calls>>

\* audio.py 82-86: one file, an existing output is removed and the file is
\* renamed to the output path; a failing os.remove propagates
CatSingle ==
    /\ UNCHANGED nonCat
    /\ cpc = "start"
    /\ Len(file_list) = 1
    /\ IF OutputPath \in cfs /\ OutputPath \in undeletable
       THEN /\ cret' = "raised"
            /\ UNCHANGED cfs
       ELSE /\ cfs' = (cfs \ {file_list[1]}) \cup {OutputPath}
            /\ cret' = "true"
    /\ cpc' = "done"
    /\ UNCHANGED <<file_list, undeletable, copy_rc, reenc_rc, pending,
                   tool_calls>>

\* audio.py 89-97: the concat list is written; when that fails the list
\* file may or may not have been created
CatWriteList ==
    /\ UNCHANGED nonCat
    /\ cpc = "start"
    /\ Len(file_list) >= 2
    /\ \E ok \in BOOLEAN, created \in BOOLEAN :
         /\ ok => created
         /\ cfs' = IF created THEN cfs \cup {ListFile} ELSE cfs
         /\ pending' = IF ok THEN pending ELSE "raised"
         /\ cpc' = IF ok THEN "copy" ELSE "finally"
    /\ UNCHANGED <<file_list, undeletable, copy_rc, reenc_rc, cret,
                   tool_calls>>

NeedsReencodeNever(rc) == FALSE

\* audio.py 107
NeedsReencode(rc) == rc # 0

\* audio.py 101-107: the stream-copy invocation; run_command never raises
\* (utils.py 19-32); a failed run may leave a file at the output path
CatCopy ==
    /\ UNCHANGED nonCat
    /\ cpc = "copy"
    /\ \E rc \in {0, 1}, left \in SUBSET {OutputPath} :
         /\ copy_rc' = rc
         /\ cfs' = cfs \cup (IF rc = 0 THEN {OutputPath} ELSE left)
         /\ IF NeedsReencode(rc)
            THEN /\ cpc' = "reencode"
                 /\ UNCHANGED pending
            ELSE /\ cpc' = "finally"
                 /\ pending' = "true"
    /\ tool_calls' = tool_calls + 1
    /\ UNCHANGED <<file_list, undeletable, reenc_rc, cret>>

\* audio.py 108-116: the re-encode invocation and the value to return
CatReencode ==
    /\ UNCHANGED nonCat
    /\ cpc = "reencode"
    /\ \E rc \in {0, 1}, left \in SUBSET {OutputPath} :
         /\ reenc_rc' = rc
         /\ cfs' = cfs \cup (IF rc = 0 THEN {OutputPath} ELSE left)
         /\ pending' = IF rc = 0 THEN "true" ELSE "false"
    /\ tool_calls' = tool_calls + 1
    /\ cpc' = "finally"
    /\ UNCHANGED <<file_list, undeletable, copy_rc, cret>>

\* audio.py 121-127: the parts the cleanup loop removes; a failing
\* os.remove is swallowed
RemovedParts(list, out, und, existing) ==
    {f \in Range(list) : f \in existing /\ f # out /\ f \notin und}

\* audio.py 117-127: the finally block; os.remove of the list file is not
\* guarded, so its failure replaces the outcome of the try block and the
\* loop over the parts is not reached
CatFinally ==
    /\ UNCHANGED nonCat
    /\ cpc = "finally"
    /\ IF ListFile \in cfs /\ ListFile \in undeletable
       THEN /\ cret' = "raised"
            /\ UNCHANGED cfs
       ELSE /\ cfs' = (cfs \ {ListFile})
                        \ RemovedParts(file_list, OutputPath, undeletable, cfs)
            /\ cret' = pending
    /\ cpc' = "done"
    /\ UNCHANGED <<file_list, undeletable, copy_rc, reenc_rc, pending,
                   tool_calls>>

CatNext ==
    \/ CatEmpty
    \/ CatSingle
    \/ CatWriteList
    \/ CatCopy
    \/ CatReencode
    \/ CatFinally

\* the other components are at rest
InitCat == CatInit /\ MainIdle /\ GenIdle /\ FixIdle /\ YtIdle /\ BatchIdle /\ ResIdle /\ DlIdle /\ SrcIdle /\ ValIdle /\ FltIdle /\ CovIdle /\ RwIdle /\ AuthIdle

SpecCat == InitCat /\ [][CatNext]_vars

\* the last attempted invocation of the media tool succeeded
LastAttemptOk ==
    IF reenc_rc # 0 - 1 THEN reenc_rc = 0 ELSE copy_rc = 0

SrcInit ==
    /\ spc = "start"
    /\ sorch \in {"process_item", "standalone"}
    /\ sauto \in (IF sorch = "standalone" THEN {FALSE} ELSE BOOLEAN)
    /\ surl \in BOOLEAN
    /\ stranscription \in BOOLEAN
    /\ filled = "none"
    /\ invoked = <<>>
    /\ yields = <<>>

\* generate_audiobook.py 22-29: under --auto the default answer (yes) is
\* taken; audio_chapter_extractor.py 742, 774 always ask
Accepts(answer) == IF sauto THEN TRUE ELSE answer

\* what a user-confirmable source contributes
Contribution(found, answer) ==
    IF ~found THEN "nothing"
    ELSE IF Accepts(answer) THEN "chapters" ELSE "declined"

SourceDueAlways(f) == TRUE

\* generate_audiobook.py 126, 135, 142, 147 and audio_chapter_extractor.py
\* 769, 779, 787, 791: "if not chapters"
SourceDue(f) == f = "none"

\* generate_audiobook.py 56-76, 100-103 and audio_chapter_extractor.py
\* 735-767: a URL is downloaded and the chapters YouTube supplies are
\* offered; a failed download or a missing input file ends the run
SrcAcquire ==
    /\ UNCHANGED nonSrc
    /\ spc = "start"
    /\ \E result \in BOOLEAN, found \in BOOLEAN, answer \in BOOLEAN,
          fileExists \in BOOLEAN :
         IF surl /\ ~result
         THEN /\ spc' = "failed"
              /\ UNCHANGED <<filled, invoked, yields>>
         ELSE /\ IF surl
                 THEN /\ invoked' = <<"youtube">>
                      /\ yields' = <<Contribution(found, answer)>>
                      /\ filled' = IF Contribution(found, answer) = "chapters"
                                   THEN "youtube" ELSE "none"
                 ELSE UNCHANGED <<filled, invoked, yields>>
              /\ spc' = IF fileExists THEN "metadata" ELSE "failed"
    /\ UNCHANGED <<sorch, sauto, surl, stranscription>>

\* generate_audiobook.py 126-132, audio_chapter_extractor.py 769-776
SrcMetadata ==
    /\ UNCHANGED nonSrc
    /\ spc = "metadata"
    /\ IF SourceDue(filled)
       THEN \E found \in BOOLEAN, answer \in BOOLEAN :
              /\ invoked' = Append(invoked, "metadata")
              /\ yields' = Append(yields, Contribution(found, answer))
              /\ filled' = IF Contribution(found, answer) = "chapters"
                           THEN "metadata" ELSE "none"
       ELSE UNCHANGED <<filled, invoked, yields>>
    /\ spc' = "transcription"
    /\ UNCHANGED <<sorch, sauto, surl, stranscription>>

\* generate_audiobook.py 134-140, audio_chapter_extractor.py 778-784
SrcTranscription ==
    /\ UNCHANGED nonSrc
    /\ spc = "transcription"
    /\ IF SourceDue(filled) /\ stranscription
       THEN \E found \in BOOLEAN :
              /\ invoked' = Append(invoked, "transcription")
              /\ yields' = Append(yields,
                                  IF found THEN "chapters" ELSE "nothing")
              /\ filled' = IF found THEN "transcription" ELSE "none"
       ELSE UNCHANGED <<filled, invoked, yields>>
    /\ spc' = "silence"
    /\ UNCHANGED <<sorch, sauto, surl, stranscription>>

\* generate_audiobook.py 142-145, audio_chapter_extractor.py 786-789
SrcSilence ==
    /\ UNCHANGED nonSrc
    /\ spc = "silence"
    /\ IF SourceDue(filled)
       THEN \E found \in BOOLEAN :
              /\ invoked' = Append(invoked, "silence")
              /\ yields' = Append(yields,
                                  IF found THEN "chapters" ELSE "nothing")
              /\ filled' = IF found THEN "silence" ELSE "none"
       ELSE UNCHANGED <<filled, invoked, yields>>
    /\ spc' = "fallback"
    /\ UNCHANGED <<sorch, sauto, surl, stranscription>>

\* generate_audiobook.py 147-155, audio_chapter_extractor.py 791-798: the
\* single chapter over the whole file
SrcFallback ==
    /\ UNCHANGED nonSrc
    /\ spc = "fallback"
    /\ IF SourceDue(filled)
       THEN /\ invoked' = Append(invoked, "fallback")
            /\ yields' = Append(yields, "chapters")
            /\ filled' = "fallback"
       ELSE UNCHANGED <<filled, invoked, yields>>
    /\ spc' = "done"
    /\ UNCHANGED <<sorch, sauto, surl, stranscription>>

SrcNext ==
    \/ SrcAcquire
    \/ SrcMetadata
    \/ SrcTranscription
    \/ SrcSilence
    \/ SrcFallback

\* the other components are at rest
InitSrc == SrcInit /\ MainIdle /\ GenIdle /\ FixIdle /\ YtIdle /\ BatchIdle /\ ResIdle /\ DlIdle /\ CatIdle /\ ValIdle /\ FltIdle /\ CovIdle /\ RwIdle /\ AuthIdle

SpecSrc == InitSrc /\ [][SrcNext]_vars

\* the position of a source in the order the claim names
SourceRank(s) ==
    CASE s = "youtube" -> 1
      [] s = "metadata" -> 2
      [] s = "transcription" -> 3
      [] s = "silence" -> 4
      [] s = "fallback" -> 5

\* C17: in both orchestrators the chapter sources are consulted in the
\* order YouTube chapters, embedded metadata, transcription (only with
\* --transcription), silence detection, whole-file fallback, and a source
\* is consulted only if every earlier one contributed nothing to the list
\* (it found none, or the user declined what it found).
C17_FixedFallbackOrder ==
    /\ Len(yields) = Len(invoked)
    /\ \A i, j \in 1..Len(invoked) :
         i < j => /\ SourceRank(invoked[i]) < SourceRank(invoked[j])
                  /\ yields[i] # "chapters"
    /\ "youtube" \in Range(invoked) => surl
    /\ "transcription" \in Range(invoked) => stranscription
    /\ spc = "done" => (filled # "none" /\ filled = invoked[Len(invoked)])

\* every source was consulted in turn and only the fallback filled the list
C17_Witness ==
    /\ spc = "done"
    /\ invoked = <<"youtube", "metadata", "transcription", "silence",
                   "fallback">>
    /\ yields[1] = "declined"
    /\ yields[2] = "nothing"
    /\ filled = "fallback"

(***************************************************************************)
(* The review loop on its own: src/audio_extractor/chapters.py             *)
(* validate_chapters 208-288, entered with any non-empty list.             *)
(***************************************************************************)

\* the lists validate_chapters can be handed: chapters in the order the
\* container reports them (chapters.py 12-31), which need not be by start
ValLists ==
    {l \in SeqsUpTo({c \in BaseChaps : c.start < c.end}, MaxValLen) : l # <<>>}

\* chapters.py 208-212: a non-empty list enters the loop
ValInit ==
    /\ vpc = "loop"
    /\ vchapters \in ValLists
    /\ vbefore = <<>>
    /\ vcmd = NoCmd
    /\ vret = <<>>
    /\ viter = 0

\* chapters.py 214-288: one iteration of the loop
ValIterate ==
    /\ UNCHANGED nonVal
    /\ vpc = "loop"
    /\ \E cmd \in Commands(vchapters) :
         /\ vcmd' = cmd
         /\ vbefore' = vchapters
         /\ IF cmd.op = "v"
            THEN /\ vret' = SortByStart(vchapters)
                 /\ vpc' = "returned"
                 /\ UNCHANGED <<vchapters, viter>>
            ELSE IF cmd.op = "r"
            THEN /\ vret' = <<>>
                 /\ vpc' = "returned"
                 /\ UNCHANGED <<vchapters, viter>>
            ELSE /\ viter < MaxValCmds
                 /\ vchapters' = ApplyCommand(vchapters, cmd)
                 /\ viter' = viter + 1
                 /\ UNCHANGED <<vpc, vret>>

ValNext == ValIterate

\* the other components are at rest
InitVal == ValInit /\ MainIdle /\ GenIdle /\ FixIdle /\ YtIdle /\ BatchIdle /\ ResIdle /\ DlIdle /\ CatIdle /\ SrcIdle /\ FltIdle /\ CovIdle /\ RwIdle /\ AuthIdle

SpecVal == InitVal /\ [][ValNext]_vars

\* how often x occurs in the sequence s
Occurrences(x, s) == Cardinality({i \in 1..Len(s) : s[i] = x})

\* a and b hold the same chapters, each as often
SameChapters(a, b) ==
    /\ Len(a) = Len(b)
    /\ \A x \in Range(a) \cup Range(b) : Occurrences(x, a) = Occurrences(x, b)

\* C18: validate_chapters on a non-empty list returns only on 'v' or 'r':
\* on 'v' it returns exactly the current chapters in ascending order of
\* start, on 'r' the empty list; after any other command the loop is still
\* running.
C18_ReturnsOnlyOnVOrR ==
    /\ vpc = "returned" =>
         /\ vcmd.op \in {"v", "r"}
         /\ vcmd.op = "v" =>
              /\ SameChapters(vret, vchapters)
              /\ \A i \in 1..(Len(vret) - 1) : vret[i].start <= vret[i + 1].start
         /\ vcmd.op = "r" => vret = <<>>
    /\ (vpc \in {"loop", "returned"} /\ vcmd # NoCmd /\ vcmd.op \notin {"v", "r"}) =>
         vpc = "loop"
    /\ (vpc \in {"loop", "returned"} /\ vcmd.op \in {"v", "r"}) => vpc = "returned"

\* 'v' after an edit, on a list that was not in start order
C18_Witness ==
    /\ vpc = "returned"
    /\ vcmd.op = "v"
    /\ viter > 0
    /\ Len(vret) = 2
    /\ vret # vchapters
    /\ vret[1].start < vret[2].start

\* the last command typed is one the loop rejects: an index outside
\* 1..len(chapters), or a line that does not parse
Rejected ==
    \/ vcmd.op = "x"
    \/ vcmd.op \in {"e", "d"} /\ (vcmd.k < 1 \/ vcmd.k > Len(vbefore))

\* C19: a command with an out-of-range index, a non-numeric index, an
\* unparseable time or an unknown command leaves the chapter list entirely
\* unchanged.
C19_RejectedCommandChangesNothing ==
    (vpc = "loop" /\ viter > 0 /\ Rejected) => vchapters = vbefore

\* 'd 0' on a list of two chapters
C19_Witness ==
    /\ vpc = "loop"
    /\ viter > 0
    /\ vcmd.op = "d"
    /\ vcmd.k = 0
    /\ Len(vbefore) = 2
    /\ vchapters = vbefore

(***************************************************************************)
(* The short-chapter filter on its own: src/audio_extractor/chapters.py    *)
(* filter_short_chapters 171-206.                                          *)
(***************************************************************************)

\* the titles a chapter can carry: two free titles and a generic one
\* (chapters.py 26, 202)
FltTitles == {Title("A"), Title("B"), Generic(3)}

\* the chapters of the lists passed: start <= end
FltChaps ==
    {Chap(a, b, t) : a \in 0..MaxFltT, b \in 0..MaxFltT, t \in FltTitles}

\* the list of three chapters 5 s, 5 s and 50 s long
ThreeChapters ==
    <<Chap(0, 5, Title("A")), Chap(5, 10, Title("B")), Chap(10, 60, Title("C"))>>

\* generate_audiobook.py 163, audio_chapter_extractor.py 806: the list and
\* args.min_chapter_len
FltInit ==
    /\ fpc = "call"
    /\ \/ /\ fchapters \in SeqsUpTo({c \in FltChaps : c.start <= c.end},
                                    MaxFltLen)
          /\ fmin \in 0..MaxMinLen
       \/ /\ fchapters = ThreeChapters
          /\ fmin = 10
    /\ fresult = <<>>

\* chapters.py 171-206
FltApply ==
    /\ UNCHANGED nonFlt
    /\ fpc = "call"
    /\ fresult' = filter_short_chapters(fchapters, fmin)
    /\ fpc' = "returned"
    /\ UNCHANGED <<fchapters, fmin>>

FltNext == FltApply

\* the other components are at rest
InitFlt == FltInit /\ MainIdle /\ GenIdle /\ FixIdle /\ YtIdle /\ BatchIdle /\ ResIdle /\ DlIdle /\ CatIdle /\ SrcIdle /\ ValIdle /\ CovIdle /\ RwIdle /\ AuthIdle

SpecFlt == InitFlt /\ [][FltNext]_vars

Span(c) == c.end - c.start

\* the call has returned for min_len > 0 and a list whose first chapter is
\* shorter than min_len and has a successor
ShortFirst ==
    /\ fpc = "returned"
    /\ fmin > 0
    /\ Len(fchapters) >= 2
    /\ Span(fchapters[1]) < fmin

\* C21 as stated: with min_len > 0, a first chapter shorter than min_len
\* that has a successor is merged forward into chapter two, which keeps its
\* title and starts where the first started, and the first is dropped; the
\* three chapters A 0-5, B 5-10, C 10-60 with min_len 10 become B 0-10,
\* C 10-60.
C21_ShortFirstMergedForward ==
    /\ ShortFirst =>
         /\ Len(fresult) < Len(fchapters)
         /\ fresult[1].title = fchapters[2].title
         /\ fresult[1].start = fchapters[1].start
    /\ (fpc = "returned" /\ fchapters = ThreeChapters /\ fmin = 10) =>
         fresult = <<Chap(0, 10, Title("B")), Chap(10, 60, Title("C"))>>

\* C21 amended: the forward merge happens when chapter two is itself not
\* shorter than min_len (a short chapter two is merged backward into the
\* first instead); chapter two then keeps its title unless the title is
\* generic, which is renumbered to position 1; the three chapters A 0-5,
\* B 5-10, C 10-60 with min_len 10 become A 0-10, C 10-60.
C21_ShortFirstMergedIntoLongSecond ==
    /\ (ShortFirst /\ Span(fchapters[2]) >= fmin) =>
         /\ Len(fresult) < Len(fchapters)
         /\ fresult[1].title = IF IsGeneric(fchapters[2].title) THEN Generic(1)
                               ELSE fchapters[2].title
         /\ fresult[1].start = fchapters[1].start
    /\ (fpc = "returned" /\ fchapters = ThreeChapters /\ fmin = 10) =>
         fresult = <<Chap(0, 10, Title("A")), Chap(10, 60, Title("C"))>>

\* a short first chapter merged into a long second one, a third one kept
C21_Witness ==
    /\ ShortFirst
    /\ Len(fchapters) = 3
    /\ Span(fchapters[2]) >= fmin
    /\ fchapters[2].title = Title("B")
    /\ fchapters[1].start < fchapters[2].start
    /\ Len(fresult) = 2
    /\ fresult[1].title = Title("B")
    /\ fresult[1].start = fchapters[1].start

\* the call has returned for min_len > 0 and a non-empty list that is
\* ordered by start and contiguous
WellFormedInput ==
    /\ fpc = "returned"
    /\ fmin > 0
    /\ fchapters # <<>>
    /\ Ordered(fchapters)
    /\ Contiguous(fchapters)

\* C27: for a non-empty, start-ordered, contiguous list and min_len > 0 the
\* result is non-empty and contiguous, begins and ends where the input did,
\* has no chapter shorter than min_len when more than one remains, and
\* every generic title carries its 1-based position.
C27_FilterKeepsSpanAndMinLength ==
    WellFormedInput =>
        /\ fresult # <<>>
        /\ Contiguous(fresult)
        /\ fresult[1].start = fchapters[1].start
        /\ fresult[Len(fresult)].end = fchapters[Len(fchapters)].end
        /\ Len(fresult) > 1 => \A i \in 1..Len(fresult) : Span(fresult[i]) >= fmin
        /\ \A i \in 1..Len(fresult) :
               IsGeneric(fresult[i].title) => fresult[i].title = Generic(i)

\* a short middle chapter was merged and the generic title behind it moved
\* up to position 2
C27_Witness ==
    /\ WellFormedInput
    /\ Len(fchapters) = 3
    /\ Span(fchapters[2]) < fmin
    /\ fchapters[3].title = Generic(3)
    /\ Len(fresult) = 2
    /\ fresult[2].title = Generic(2)
    /\ fresult[1].end = fchapters[2].end

(***************************************************************************)
(* Cover choice of download_youtube_audio over a sequence of acquisitions  *)
(* that share one output directory.  generate_audiobook.py hands every URL *)
(* item the directory ".tmp" (lines 49-53) and nothing removes the         *)
(* thumbnails yt-dlp writes there.                                         *)
(***************************************************************************)

\* the items (URLs) that can be requested
CovItems == 1..NumItems

\* the first acquisition finds an empty directory
CovInit ==
    /\ kpc = "next"
    /\ kitem = 0
    /\ ksession = 0
    /\ kjpgs = {}
    /\ kfinals = {}
    /\ kcover = <<>>

\* process_item calls download_youtube_audio for some URL: a new session id
\* is drawn (youtube.py 167-172)
AcqBegin ==
    /\ kpc \in {"next", "returned"}
    /\ ksession < MaxAcq
    /\ \E it \in CovItems : kitem' = it
    /\ ksession' = ksession + 1
    /\ kcover' = <<>>
    /\ kpc' = "acquire"
    /\ UNCHANGED <<kjpgs, kfinals>>
    /\ UNCHANGED nonCov

\* the image glob.glob(output_dir/*.jpg)[0] may name: glob's order is that
\* of the directory listing, so any file of the directory can come first
FoundCovers == kjpgs

\* the final file exists: the cached path, youtube.py 185-238
AcqCached ==
    /\ kpc = "acquire"
    /\ kitem \in kfinals
    /\ IF FoundCovers # {}
       THEN /\ \E j \in FoundCovers : kcover' = j
            /\ UNCHANGED kjpgs
       ELSE \E fetched \in BOOLEAN :
                LET own == <<"cover", ksession, kitem>>
                IN  /\ kjpgs' = IF fetched THEN kjpgs \cup {own} ELSE kjpgs
                    /\ kcover' = IF fetched THEN own ELSE <<>>
    /\ kpc' = "returned"
    /\ UNCHANGED <<kitem, ksession, kfinals>>
    /\ UNCHANGED nonCov

\* the final file is missing: download, resolve and merge, youtube.py 241-350
AcqFresh ==
    /\ kpc = "acquire"
    /\ kitem \notin kfinals
    /\ \E dl \in BOOLEAN, thumb \in BOOLEAN, merged \in BOOLEAN :
           LET own == <<"yt", ksession, kitem>>
           IN  /\ kjpgs' = IF thumb THEN kjpgs \cup {own} ELSE kjpgs
               /\ kcover' = IF dl /\ thumb THEN own ELSE <<>>
               /\ kfinals' = IF dl /\ merged THEN kfinals \cup {kitem}
                             ELSE kfinals
    /\ kpc' = "returned"
    /\ UNCHANGED <<kitem, ksession>>
    /\ UNCHANGED nonCov

CovNext == AcqBegin \/ AcqCached \/ AcqFresh

InitCov == CovInit /\ MainIdle /\ GenIdle /\ FixIdle /\ YtIdle /\ BatchIdle /\ ResIdle /\ DlIdle /\ CatIdle /\ SrcIdle /\ ValIdle /\ FltIdle /\ RwIdle /\ AuthIdle

SpecCov == InitCov /\ [][CovNext]_vars

RwInit ==
    /\ rwpc = "read"
    /\ rwlines \in SeqsUpTo(InputLines, MaxRwLines)
    /\ rwfixed = <<>>
    /\ rwagain = <<>>

\* audio_utils.py 120-150: the loop, the final check and writelines
RwRewrite ==
    /\ rwpc = "read"
    /\ rwfixed' = FixedLines(rwlines)
    /\ rwpc' = "fixed"
    /\ UNCHANGED <<rwlines, rwagain>>
    /\ UNCHANGED nonRw

\* a second call of fix_markers_locally on the repaired file
\* (fix_chapters_in_folder run again, main.py 43-48)
RwRewriteAgain ==
    /\ rwpc = "fixed"
    /\ rwagain' = FixedLines(rwfixed)
    /\ rwpc' = "again"
    /\ UNCHANGED <<rwlines, rwfixed>>
    /\ UNCHANGED nonRw

RwNext == RwRewrite \/ RwRewriteAgain

InitRw == RwInit /\ MainIdle /\ GenIdle /\ FixIdle /\ YtIdle /\ BatchIdle /\ ResIdle /\ DlIdle /\ CatIdle /\ SrcIdle /\ ValIdle /\ FltIdle /\ CovIdle /\ AuthIdle

SpecRw == InitRw /\ [][RwNext]_vars

\* the value of a title line is non-empty and not the text none
HasUsableValue(line) == line.val \notin {"empty", "none"}

\* the number of the [CHAPTER] block line i of a text lies in: the count of
\* headers up to line i, 0 before the first header
ChapterOf(text, i) ==
    Cardinality({j \in 1..i : text[j].kind = "header"})

NumChapters(text) == ChapterOf(text, Len(text))

\* the title lines of block k of a text
BlockTitles(text, k) ==
    {i \in 1..Len(text) : ChapterOf(text, i) = k /\ text[i].kind = "title"}

\* block k of the text holds no usable title
NeedsTitle(text, k) ==
    \/ BlockTitles(text, k) = {}
    \/ \E i \in BlockTitles(text, k) : ~HasUsableValue(text[i])

\* the lines of a text that satisfy keep(text, i), in order
LinesWhere(text, keep(_, _)) ==
    LET f[i \in 0..Len(text)] ==
            IF i = 0 THEN <<>>
            ELSE IF keep(text, i) THEN Append(f[i - 1], text[i])
                 ELSE f[i - 1]
    IN  f[Len(text)]

\* line i is not an unusable title of a chapter
NotBadChapterTitle(text, i) ==
    ~(ChapterOf(text, i) > 0 /\ text[i].kind = "title" /\ ~HasUsableValue(text[i]))

\* line i is not a synthesized title
NotSynthesized(text, i) == text[i].val # "Chapter"

\* C29: after the rewrite every [CHAPTER] block holds a title line with a
\* usable value; chapter k gets "title=Chapter k" exactly when it had no
\* title line or an empty/none title; all other lines are kept unchanged and
\* in order; rewriting the output again changes nothing
C29_RewriteRepairsTitles ==
    (rwpc \in {"fixed", "again"}) =>
        /\ NumChapters(rwfixed) = NumChapters(rwlines)
        /\ \A k \in 1..NumChapters(rwfixed) :
               /\ \E i \in BlockTitles(rwfixed, k) : HasUsableValue(rwfixed[i])
               /\ \A i \in BlockTitles(rwfixed, k) : HasUsableValue(rwfixed[i])
               /\ (\E i \in BlockTitles(rwfixed, k) :
                       rwfixed[i] = ChapterTitle(k))
                  <=> NeedsTitle(rwlines, k)
        /\ LinesWhere(rwfixed, NotSynthesized)
               = LinesWhere(rwlines, NotBadChapterTitle)
        /\ rwpc = "again" => rwagain = rwfixed

\* a text of two chapters, the first without a title line and the second
\* with a bad one, has been rewritten twice
C29_Witness ==
    /\ rwpc = "again"
    /\ NumChapters(rwlines) = 2
    /\ BlockTitles(rwlines, 1) = {}
    /\ \E i \in BlockTitles(rwlines, 2) : ~HasUsableValue(rwlines[i])
    /\ Len(rwfixed) = Len(rwlines) + 1

(***************************************************************************)
(* The author text of extract_metadata_dict, src/src/metadata.py 30-37.    *)
(* A text is a sequence of pieces: a name is one piece, the empty text is  *)
(* the empty sequence.                                                     *)
(***************************************************************************)

\* the value of a missing "name" key
NoName == "<None>"

\* what a.get("name") can be: missing, the empty text or a name
NameValues == {NoName, "", "A", "B"}

\* python truthiness of such a value
Truthy(name) == name # NoName /\ name # ""

\* an entry of the details: absent, present with another type, or a list
\* of objects (given by their names) / an object (given by its name)
AuthorsValues ==
    {[kind |-> "absent", names |-> <<>>], [kind |-> "other", names |-> <<>>]}
    \cup {[kind |-> "list", names |-> l] : l \in SeqsUpTo(NameValues, MaxAuthors)}

AuthorValues ==
    {[kind |-> "absent", name |-> NoName], [kind |-> "other", name |-> NoName]}
    \cup {[kind |-> "dict", name |-> n] : n \in NameValues}

UnknownAuthor == <<"Unknown Author">>

RECURSIVE TruthyNames(_)
\* filter(None, names) and the "if a.get('name')" of the comprehension
TruthyNames(names) ==
    IF names = <<>> THEN <<>>
    ELSE IF Truthy(Head(names)) THEN <<Head(names)>> \o TruthyNames(Tail(names))
         ELSE TruthyNames(Tail(names))

RECURSIVE JoinNames(_)
\* ", ".join(names)
JoinNames(names) ==
    IF names = <<>> THEN <<>>
    ELSE IF Len(names) = 1 THEN <<Head(names)>>
         ELSE <<Head(names), ", ">> \o JoinNames(Tail(names))

\* metadata.py 31-37
ExtractAuthor(details) ==
    LET authors ==
            IF details.authors.kind = "list"
            THEN TruthyNames(details.authors.names)
            ELSE IF details.author.kind = "dict"
                 THEN <<details.author.name>>
                 ELSE <<>>
    IN  IF authors # <<>> THEN JoinNames(TruthyNames(authors))
        ELSE UnknownAuthor

\* main.py 270, 358: the details object of a book as the API returned it
AuthInit ==
    /\ mdpc = "call"
    /\ book_details \in [authors : AuthorsValues, author : AuthorValues]
    /\ author_str = <<>>

\* metadata.py 23-37: the call, up to the author text
AuthExtract ==
    /\ mdpc = "call"
    /\ author_str' = ExtractAuthor(book_details)
    /\ mdpc' = "returned"
    /\ UNCHANGED book_details
    /\ UNCHANGED nonAuth

AuthNext == AuthExtract

InitAuth == AuthInit /\ MainIdle /\ GenIdle /\ FixIdle /\ YtIdle /\ BatchIdle /\ ResIdle /\ DlIdle /\ CatIdle /\ SrcIdle /\ ValIdle /\ FltIdle /\ CovIdle /\ RwIdle

SpecAuth == InitAuth /\ [][AuthNext]_vars

\* the names authors[] yields
ListNames(details) ==
    IF details.authors.kind = "list"
    THEN TruthyNames(details.authors.names) ELSE <<>>

\* the singular author object has a name
SingularName(details) ==
    details.author.kind = "dict" /\ Truthy(details.author.name)

\* C30: 'author' is the comma-joined names from authors[] when that yields
\* any name, otherwise the singular author object's name when it has one,
\* and 'Unknown Author' exactly when neither resolves to a name; it is never
\* the empty string
C30_AuthorResolution ==
    mdpc = "returned" =>
        /\ author_str =
              IF ListNames(book_details) # <<>>
              THEN JoinNames(ListNames(book_details))
              ELSE IF SingularName(book_details)
                   THEN <<book_details.author.name>>
                   ELSE UnknownAuthor
        /\ author_str # <<>>

====
